---- MODULE Spec2Model ----
(***************************************************************************)
(* A model of the GME-bot repository: the shared outbound RateLimiter      *)
(* (utils/rate_limiter.py), the rate-limited requestor of main.py, and the *)
(* two reputation features (features/cheers.py, features/kudos.py), the    *)
(* quips feature (features/quips.py) and the moderation assistant          *)
(* (features/entry_approval.py).                                           *)
(*                                                                         *)
(* The specifications share the variables:                                 *)
(*   SpecRL     feature threads issuing platform requests through          *)
(*              RateLimitedRequestor.request and RateLimiter.acquire;      *)
(*   SpecRLFair SpecRL with time that advances, under fairness;            *)
(*   SpecBurst  threads calling RateLimiter.acquire back to back;          *)
(*   Spec       one listener thread handling comments one after another;   *)
(*   SpecConc   several handler threads on one feature instance;           *)
(*   SpecRun    the listener under the supervision of run();               *)
(*   SpecCrash  startup from the data files, kills and redelivery;         *)
(*   SpecStore  json.dump and json.load on the text of a data file;        *)
(*   SpecTop    the leaderboards;                                          *)
(*   SpecFlair  update_user_flair over the flair texts of the platform;    *)
(*   SpecParse  the recognition of a command in the body of a comment;     *)
(*   SpecQuips  the quips feature and its cooldown;                        *)
(*   SpecEA     the moderation assistant, its file and its restarts.       *)
(* Statements take no time; time passes between steps (Tick, the delay     *)
(* before a comment arrives, a sleep).                                     *)
(***************************************************************************)
EXTENDS Integers, Sequences, FiniteSets, TLC

VARIABLES
    clock,          \* time.time() / datetime.utcnow(), in clock ticks
    \* ---- utils/rate_limiter.py, main.py
    max_calls,      \* RateLimiter.max_calls
    period,         \* RateLimiter.period
    calls,          \* RateLimiter.calls
    rl_lock,        \* RateLimiter.lock: 0 when free, else the holding thread
    rl_pc,          \* per thread: position inside RateLimitedRequestor.request
    rl_now,         \* per thread: acquire()'s local `now`
    rl_wake,        \* per thread: the instant time.sleep(sleep_time) ends
    rl_kind,        \* per thread: the kind of platform request being issued
    returned,       \* history: the timestamp of every acquire() that returned
    token,          \* history: per thread, acquire() returned and no request used it yet
    unmatched,      \* history: some request went out without an acquire() of its own
    issued,         \* history: calls of request() so far
    sent,           \* history: requests handed to super().request so far
    \* ---- features/cheers.py, features/kudos.py
    feature,            \* the class of the feature instance: "cheers" or "kudos"
    cheers_data,        \* CheersFeature.cheers_data (received counts)
    rate_limit_data,    \* CheersFeature.rate_limit_data (cooldown table)
    cheers_awarded_data,\* CheersFeature.cheers_awarded_data (given counts)
    kudos_data,         \* KudosFeature.kudos_data (received counts)
    disk,               \* the content of the data files, by file name
    fstate,             \* the state of each data file: "missing", "ok",
                        \* "malformed" (not JSON: empty or cut short) or "unreadable"
    pc,                 \* per handler thread: position in the handling of a comment
    cmd,                \* per handler thread: the comment and what the platform
                        \* answers about it
    loc,                \* per handler thread: the handler's local variables
    out,                \* per handler thread: what the handling did so far
    snap,               \* history: per handler thread, the shared state when the
                        \* comment arrived
    awards,             \* history: <<awarder, instant>> of every cooldown stamp
    credited,           \* history: received-count increments made, by ledger key
    ncomments,          \* history: comments delivered so far
    applied,            \* history: the comment id of every received-count increment
    ftext,              \* the text of the received-counts file, character by character
    saved,              \* history: the mapping the last json.dump was given
    \* ---- features/entry_approval.py
    processed_conversations,  \* EntryApprovalFeature.processed_conversations
    conversations,      \* the platform: by conversation id, what the modmail holds
    ea_pc,              \* position of the entry approval thread
    ea_todo,            \* the conversations of the listing not yet looked at
    ea_conv,            \* process_join_requests: conversation_id
    ea_data,            \* save_processed_conversations: data['conversations']
    ea_tf,              \* save_processed_conversations: the name of the file written to
    ea_before,          \* history: the durable file as the last save found it
    ea_marked,          \* history: the ids ever added to processed_conversations
    ea_rounds,          \* history: listings fetched so far
    ea_kills            \* history: kills of the process so far

rlVars == <<max_calls, period, calls, rl_lock, rl_pc, rl_now, rl_wake, rl_kind,
            returned, token, unmatched, issued, sent>>

ledgerVars ==
    <<cheers_data, rate_limit_data, cheers_awarded_data, kudos_data, disk, fstate>>

thrVars == <<pc, cmd, loc, out, snap>>

histVars == <<awards, credited, ncomments, applied>>

storeVars == <<ftext, saved>>

eaVars == <<processed_conversations, conversations, ea_pc, ea_todo, ea_conv, ea_data,
            ea_tf, ea_before, ea_marked, ea_rounds, ea_kills>>

hVars == <<feature, ledgerVars, thrVars, histVars, storeVars, eaVars>>

vars == <<clock, rlVars, hVars>>

(***************************************************************************)
(* Bounds of the model.                                                    *)
(***************************************************************************)
NThreads == 2
MaxMaxCalls == 2
MaxPeriod == 2
MaxTime == 3
MaxRequests == 3
NHandlers == 2
MaxComments == 2
MaxLedger == 3
MaxBoard == 6
MaxRounds == 2
MaxKills == 1
TicksPerSecond == 2

Threads == 1..NThreads

\* The kinds of outbound platform request a feature thread issues.
RequestKinds == {"existence", "membership", "badge", "reply"}

(***************************************************************************)
(* utils/rate_limiter.py                                                   *)
(***************************************************************************)
\* a clean-up that drops nothing
PruneCalls_none(s, now, per) == s

RECURSIVE SelectSeqBy(_, _, _)
\* [call for call in s if now - call < per]
SelectSeqBy(s, now, per) ==
    IF s = <<>> THEN <<>>
    ELSE IF now - Head(s) < per
         THEN <<Head(s)>> \o SelectSeqBy(Tail(s), now, per)
         ELSE SelectSeqBy(Tail(s), now, per)

PruneCalls(s, now, per) == SelectSeqBy(s, now, per)

\* a limiter that waits one call too late
MustWait_offbyone(s, m) == Len(s) > m
\* if len(self.calls) >= self.max_calls
MustWait(s, m) == Len(s) >= m

\* a sleep of half the time left
SleepTime_half(s, now, per) == (per - (now - s[1])) \div 2
\* sleep_time = self.period - (now - self.calls[0])
SleepTime(s, now, per) == per - (now - s[1])

\* with self.lock: (entering)
AcquireLock(t) ==
    /\ rl_pc[t] = "acquire"
    /\ rl_lock = 0
    /\ rl_lock' = t
    /\ rl_pc' = [rl_pc EXCEPT ![t] = "locked"]
    /\ UNCHANGED <<clock, max_calls, period, calls, rl_now, rl_wake, rl_kind,
                   returned, token, unmatched, issued, sent, hVars>>

\* now = time.time(); prune; the test of len(self.calls); sleep_time
AcquireCheck(t) ==
    /\ rl_pc[t] = "locked"
    /\ rl_lock = t
    /\ LET pruned == PruneCalls(calls, clock, period) IN
       /\ calls' = pruned
       /\ rl_now' = [rl_now EXCEPT ![t] = clock]
       /\ IF MustWait(pruned, max_calls)
          THEN IF pruned = <<>>
               THEN \* self.calls[0] raises IndexError; `with` releases the lock
                    /\ rl_pc' = [rl_pc EXCEPT ![t] = "raised"]
                    /\ rl_lock' = 0
                    /\ UNCHANGED rl_wake
               ELSE /\ rl_pc' = [rl_pc EXCEPT ![t] = "sleeping"]
                    /\ rl_wake' = [rl_wake EXCEPT ![t] =
                                      clock + SleepTime(pruned, clock, period)]
                    /\ UNCHANGED rl_lock
          ELSE /\ rl_pc' = [rl_pc EXCEPT ![t] = "append"]
               /\ UNCHANGED <<rl_lock, rl_wake>>
    /\ UNCHANGED <<clock, max_calls, period, rl_kind, returned, token, unmatched, issued, sent, hVars>>

\* time.sleep(sleep_time) returns; now = time.time(); prune again
AcquireWake(t) ==
    /\ rl_pc[t] = "sleeping"
    /\ rl_lock = t
    /\ clock >= rl_wake[t]
    /\ calls' = PruneCalls(calls, clock, period)
    /\ rl_now' = [rl_now EXCEPT ![t] = clock]
    /\ rl_pc' = [rl_pc EXCEPT ![t] = "append"]
    /\ UNCHANGED <<clock, max_calls, period, rl_lock, rl_wake, rl_kind,
                   returned, token, unmatched, issued, sent, hVars>>

\* an acquire() that returns with the lock still held
AcquireAppend_keeps_lock(t) ==
    /\ rl_pc[t] = "append"
    /\ rl_lock = t
    /\ calls' = Append(calls, rl_now[t])
    /\ returned' = Append(returned, rl_now[t])
    /\ token' = [token EXCEPT ![t] = TRUE]
    /\ rl_pc' = [rl_pc EXCEPT ![t] = "acquired"]
    /\ rl_now' = [rl_now EXCEPT ![t] = 0]
    /\ rl_wake' = [rl_wake EXCEPT ![t] = 0]
    /\ UNCHANGED <<clock, max_calls, period, rl_lock, rl_kind, unmatched, issued, sent, hVars>>

\* self.calls.append(now); leaving `with self.lock`; acquire() returns
AcquireAppend(t) ==
    /\ rl_pc[t] = "append"
    /\ rl_lock = t
    /\ calls' = Append(calls, rl_now[t])
    /\ rl_lock' = 0
    /\ returned' = Append(returned, rl_now[t])
    /\ token' = [token EXCEPT ![t] = TRUE]
    /\ rl_pc' = [rl_pc EXCEPT ![t] = "acquired"]
    \* the locals of acquire() are gone once it has returned
    /\ rl_now' = [rl_now EXCEPT ![t] = 0]
    /\ rl_wake' = [rl_wake EXCEPT ![t] = 0]
    /\ UNCHANGED <<clock, max_calls, period, rl_kind, unmatched, issued, sent, hVars>>

(***************************************************************************)
(* main.py: RateLimitedRequestor                                           *)
(***************************************************************************)
\* a requestor that goes to super().request() at once
RequestEntry_noacquire == "acquired"
\* request() begins with self.rate_limiter.acquire()
RequestEntry == "acquire"

\* A feature thread calls the platform client, which calls request().
request_call(t) ==
    /\ rl_pc[t] = "idle"
    /\ issued < MaxRequests
    /\ issued' = issued + 1
    /\ \E k \in RequestKinds : rl_kind' = [rl_kind EXCEPT ![t] = k]
    /\ rl_pc' = [rl_pc EXCEPT ![t] = RequestEntry]
    /\ UNCHANGED <<clock, max_calls, period, calls, rl_lock, rl_now, rl_wake,
                   returned, token, unmatched, sent, hVars>>

\* return super().request(*args, **kwargs)
request_super(t) ==
    /\ rl_pc[t] = "acquired"
    /\ unmatched' = (unmatched \/ ~token[t])
    /\ sent' = sent + 1
    /\ token' = [token EXCEPT ![t] = FALSE]
    /\ rl_pc' = [rl_pc EXCEPT ![t] = "idle"]
    /\ rl_kind' = [rl_kind EXCEPT ![t] = "none"]
    /\ UNCHANGED <<clock, max_calls, period, calls, rl_lock, rl_now, rl_wake,
                   returned, issued, hVars>>

\* The IndexError of acquire() leaves request(); the feature's loop catches it.
request_raise(t) ==
    /\ rl_pc[t] = "raised"
    /\ rl_pc' = [rl_pc EXCEPT ![t] = "idle"]
    /\ rl_kind' = [rl_kind EXCEPT ![t] = "none"]
    /\ UNCHANGED <<clock, max_calls, period, calls, rl_lock, rl_now, rl_wake,
                   returned, token, unmatched, issued, sent, hVars>>

\* Time passes.
Tick ==
    /\ clock < MaxTime
    /\ clock' = clock + 1
    /\ UNCHANGED <<rlVars, hVars>>

\* Time goes on for as long as a thread is inside time.sleep(sleep_time).
Advance ==
    /\ \/ clock < MaxTime
       \/ \E t \in Threads : rl_pc[t] = "sleeping" /\ clock < rl_wake[t]
    /\ clock' = clock + 1
    /\ UNCHANGED <<rlVars, hVars>>

(***************************************************************************)
(* Text: a user name or a word of a comment is a sequence of characters.   *)
(***************************************************************************)
\* The letters a text of the model is written with.
IsLetter(c) == c \in {"a", "b", "c", "e", "k", "m", "o", "p", "t", "u", "x", "y",
                      "g", "h", "s", "A", "B", "U", "D", "F", "V"}

LowerChar(c) ==
    CASE c = "A" -> "a"
      [] c = "B" -> "b"
      [] c = "U" -> "u"
      [] OTHER -> c

\* str.lower()
lower(s) == [i \in 1..Len(s) |-> LowerChar(s[i])]

RECURSIVE lstrip(_, _)
\* str.lstrip(chars): drops every leading character that is in chars
lstrip(s, chars) ==
    IF s # <<>> /\ Head(s) \in chars THEN lstrip(Tail(s), chars) ELSE s

\* str.startswith(p)
startswith(s, p) == Len(s) >= Len(p) /\ SubSeq(s, 1, Len(p)) = p

\* str.strip() and str.rstrip(): white space goes from both ends, from the end
WHITESPACE == {" ", "\n"}

RECURSIVE rstrip(_)
rstrip(s) ==
    IF s # <<>> /\ s[Len(s)] \in WHITESPACE THEN rstrip(SubSeq(s, 1, Len(s) - 1))
    ELSE s

strip(s) == lstrip(rstrip(s), WHITESPACE)

RECURSIVE split(_)
\* str.split(): the words between runs of white space
split(s) ==
    LET t == lstrip(s, WHITESPACE)
        n == IF \E i \in 1..Len(t) : t[i] \in WHITESPACE
             THEN (CHOOSE i \in 1..Len(t) :
                      /\ t[i] \in WHITESPACE
                      /\ \A j \in 1..(i - 1) : t[j] \notin WHITESPACE) - 1
             ELSE Len(t)
    IN  IF t = <<>> THEN <<>>
        ELSE <<SubSeq(t, 1, n)>> \o split(SubSeq(t, n + 1, Len(t)))

RECURSIVE join(_)
\* ' '.join(words)
join(w) ==
    IF w = <<>> THEN <<>>
    ELSE IF Len(w) = 1 THEN w[1]
    ELSE w[1] \o <<" ">> \o join(Tail(w))

\* \w of a regular expression: a letter, a digit or the underscore
IsWordChar(c) ==
    \/ IsLetter(c)
    \/ c \in {"0", "1", "2", "3", "4", "5", "6", "7", "8", "9", "_"}

\* \b at the place before position i of the text: a word character on one
\* side and none on the other (the ends of the text count as none)
WordBoundary(s, i) ==
    (i > 1 /\ i - 1 <= Len(s) /\ IsWordChar(s[i - 1]))
        # (i >= 1 /\ i <= Len(s) /\ IsWordChar(s[i]))

\* The text has kw at position i, whatever the case of its letters (re.IGNORECASE).
KeywordAt(s, i, kw) ==
    /\ i >= 1
    /\ i + Len(kw) - 1 <= Len(s)
    /\ lower(SubSeq(s, i, i + Len(kw) - 1)) = lower(kw)

DIGITS == <<"0", "1", "2", "3", "4", "5", "6", "7", "8", "9">>

IsDigit(c) == \E d \in 1..10 : DIGITS[d] = c

DigitValue(c) == (CHOOSE d \in 1..10 : DIGITS[d] = c) - 1

RECURSIVE str_int(_)
\* the decimal digits json.dump writes for a count n >= 0
str_int(n) ==
    IF n < 10 THEN <<DIGITS[n + 1]>>
    ELSE str_int(n \div 10) \o <<DIGITS[(n % 10) + 1]>>

RECURSIVE int_str(_)
\* the number json.load reads from a run of digits
int_str(ds) ==
    IF ds = <<>> THEN 0
    ELSE int_str(SubSeq(ds, 1, Len(ds) - 1)) * 10 + DigitValue(ds[Len(ds)])

(***************************************************************************)
(* dict: Python keeps the keys in insertion order, so a dict is a sequence *)
(* of <<key, value>> pairs.                                                *)
(***************************************************************************)
Has(d, k) == \E i \in 1..Len(d) : d[i][1] = k

\* d.get(k, default)
Get(d, k, default) ==
    IF Has(d, k) THEN d[CHOOSE i \in 1..Len(d) : d[i][1] = k][2] ELSE default

\* d[k] = v
Put(d, k, v) ==
    IF Has(d, k)
    THEN [i \in 1..Len(d) |-> IF d[i][1] = k THEN <<k, v>> ELSE d[i]]
    ELSE Append(d, <<k, v>>)

Keys(d) == {d[i][1] : i \in 1..Len(d)}

\* d.items()
items(d) == d

\* a sort that puts an entry before the earlier entries of the same count
insert_desc_unstable(r, x) ==
    LET k == Cardinality({i \in 1..Len(r) : r[i][2] > x[2]})
    IN  SubSeq(r, 1, k) \o <<x>> \o SubSeq(r, k + 1, Len(r))

\* One step of the stable sort by count, highest first: x goes behind every
\* entry already placed whose count is not smaller.
insert_desc(r, x) ==
    LET k == Cardinality({i \in 1..Len(r) : r[i][2] >= x[2]})
    IN  SubSeq(r, 1, k) \o <<x>> \o SubSeq(r, k + 1, Len(r))

RECURSIVE sorted_desc(_)
\* sorted(s, key=lambda x: x[1], reverse=True): entries of equal count keep
\* the order they had in s
sorted_desc(s) ==
    IF s = <<>> THEN <<>>
    ELSE insert_desc(sorted_desc(SubSeq(s, 1, Len(s) - 1)), s[Len(s)])

\* the [:5] of the leaderboard
LEADERBOARD_SIZE == 5

\* top_users = sorted(self.cheers_data.items(), ...)[:5]
top_users(d) ==
    LET s == sorted_desc(items(d))
    IN  SubSeq(s, 1, IF Len(s) < LEADERBOARD_SIZE THEN Len(s) ELSE LEADERBOARD_SIZE)

(***************************************************************************)
(* Time: datetime values are clock ticks; the "%Y-%m-%d %H:%M:%S" text of  *)
(* a datetime is the whole second it names.                                *)
(***************************************************************************)
\* datetime.strftime("%Y-%m-%d %H:%M:%S"): the fraction of the second is dropped
strftime(t) == t \div TicksPerSecond

\* datetime.strptime(s, "%Y-%m-%d %H:%M:%S")
strptime(s) == s * TicksPerSecond

\* timedelta.days
days(delta) == delta \div (86400 * TicksPerSecond)

(***************************************************************************)
(* features/cheers.py and features/kudos.py: constants and files           *)
(***************************************************************************)
MIN_ACCOUNT_AGE_DAYS == 7
MIN_COMMENT_KARMA == 50
CHEERS_COOLDOWN_SECONDS == 600

CHEERS_FILE == "cheers_data.json"
RATE_LIMIT_FILE == "rate_limit.json"
CHEERS_AWARDED_FILE == "cheers_awarded_data.json"
KUDOS_FILE == "kudos_data.json"
\* features/quips.py: RATE_LIMIT_FILE of QuipsFeature
QUIPS_RATE_LIMIT_FILE == "quips_rate_limit.json"

\* features/entry_approval.py: processed_conversations_file, and the file
\* tempfile.NamedTemporaryFile('w', delete=False, dir='.', suffix='.tmp') makes
processed_conversations_file == "processed_conversations.json"
TEMP_FILE == "processed_conversations.tmp"

Files ==
    {CHEERS_FILE, RATE_LIMIT_FILE, CHEERS_AWARDED_FILE, KUDOS_FILE, QUIPS_RATE_LIMIT_FILE,
     processed_conversations_file, TEMP_FILE}

\* self.reddit.user.me().name
REDDIT_USERNAME == <<"g">>

\* json.dump(data, f) into the file opened with 'w'
save_json_data(dsk, data, file_name) == [dsk EXCEPT ![file_name] = data]

(***************************************************************************)
(* The platform: accounts, comments, and what a lookup answers.            *)
(***************************************************************************)
Accounts == {<<"u", "b">>, <<"b">>, <<"a", "b">>}

Awarders == {<<"u", "b">>, <<"b">>}

NoAuthor == <<>>

TargetTokens ==
    { <<"u", "/", "b">>, <<"u", "/", "B">>, <<"u", "/", "u", "b">>,
      <<"u", "/", "a", "b">>, <<"b">> }

ME == <<"m", "e">>
TOP == <<"t", "o", "p">>
TO == <<"t", "o">>

\* The command token of the feature: "!cheers" or "!kudos".
Keyword(f) == IF f = "cheers" THEN <<"!", "c">> ELSE <<"!", "k">>

\* re.search(r'\b!cheers\b', comment.body, re.IGNORECASE): the places of the
\* body where the pattern matches
c_search(body) ==
    { i \in 1..Len(body) :
        /\ WordBoundary(body, i)
        /\ KeywordAt(body, i, Keyword("cheers"))
        /\ WordBoundary(body, i + Len(Keyword("cheers"))) }

\* re.search(r'(?i)(!cheers\b.*)', comment.body).group(1): from the first
\* '!cheers' that ends a word to the end of its line; nothing when there is none
command_text(body) ==
    LET at == { i \in 1..Len(body) :
                  /\ KeywordAt(body, i, Keyword("cheers"))
                  /\ WordBoundary(body, i + Len(Keyword("cheers"))) }
    IN  IF at = {} THEN <<>>
        ELSE LET i == CHOOSE j \in at : \A k \in at : j <= k
                 nl == { j \in i..Len(body) : body[j] = "\n" }
                 e == IF nl = {} THEN Len(body)
                      ELSE (CHOOSE j \in nl : \A k \in nl : j <= k) - 1
             IN  SubSeq(body, i, e)

\* kudos: comment.body.strip().lower().startswith('!kudos')
k_startswith(body) == startswith(lower(strip(body)), Keyword("kudos"))

\* Whether monitor_comments takes the body for a command of the feature.
Recognized(f, body) ==
    IF f = "cheers" THEN c_search(body) # {} /\ command_text(body) # <<>>
    ELSE IF f = "kudos" THEN k_startswith(body)
    ELSE FALSE

\* words: command_text.strip().split() of cheers, comment.body.strip().split()
\* of kudos; none for a body that is no command
Words(f, body) ==
    IF ~Recognized(f, body) THEN <<>>
    ELSE IF f = "cheers" THEN split(strip(command_text(body)))
    ELSE split(strip(body))

\* A body in which the feature finds the words w: the words with a blank
\* between them; for cheers after a word the command is glued to, as the
\* pattern of its search needs a word character before the '!'.
BodyOf(f, w) == IF f = "cheers" THEN <<"x">> \o join(w) ELSE join(w)

\* command_text.strip().split() of an award that names its target
AwardWords(f) ==
    { <<Keyword(f), tok>> : tok \in TargetTokens }
        \cup { <<Keyword(f), TO, <<"u", "/", "a", "b">> >> }

\* ... and of the two queries
QueryWords(f) == { <<Keyword(f), ME>>, <<Keyword(f), TOP>> }

\* The delays between one comment and the next, in ticks: none, one tick,
\* and around the cooldown.
Delays ==
    { 0, 1, (CHEERS_COOLDOWN_SECONDS - 1) * TicksPerSecond,
      CHEERS_COOLDOWN_SECONDS * TicksPerSecond - 1,
      (CHEERS_COOLDOWN_SECONDS + 1) * TicksPerSecond }

\* The ages of an awarder's account when the comment arrives, in ticks.
Ages ==
    { MIN_ACCOUNT_AGE_DAYS * 86400 * TicksPerSecond - 1,
      MIN_ACCOUNT_AGE_DAYS * 86400 * TicksPerSecond }

Karmas == {MIN_COMMENT_KARMA - 1, MIN_COMMENT_KARMA}

\* What the two lookups about the target answer; the second is only made
\* after the first said yes.
Lookups == {<<TRUE, TRUE>>, <<TRUE, FALSE>>, <<FALSE, FALSE>>}

\* A comment of the stream with what the platform holds about it. Its body is
\* one in which the feature finds the words w.
Comment(a, w, p, l, now, g, k) ==
    [author |-> a, words |-> w,
     body |-> BodyOf(IF w[1] = Keyword("cheers") THEN "cheers" ELSE "kudos", w),
     parent |-> p, exists |-> l[1], member |-> l[2],
     error |-> {}, flair_text |-> <<>>, created_utc |-> now - g,
     comment_karma |-> k]

\* The comments a listener is given: awards with a target, awards to the
\* parent's author, the two queries, and a comment of the bot itself.
Delivered(f, now) ==
    { Comment(a, w, NoAuthor, l, now, g, k) :
        a \in Awarders, w \in AwardWords(f), l \in Lookups, g \in Ages, k \in Karmas }
    \cup { Comment(a, <<Keyword(f)>>, p, l, now, g, k) :
        a \in Awarders, p \in {NoAuthor, <<"a", "b">>}, l \in Lookups,
        g \in {MIN_ACCOUNT_AGE_DAYS * 86400 * TicksPerSecond}, k \in Karmas }
    \cup { Comment(a, w, NoAuthor, <<TRUE, TRUE>>, now, g, k) :
        a \in Awarders, w \in QueryWords(f),
        g \in {MIN_ACCOUNT_AGE_DAYS * 86400 * TicksPerSecond - 1}, k \in Karmas }
    \cup { Comment(REDDIT_USERNAME, w, NoAuthor, <<TRUE, TRUE>>, now,
                   MIN_ACCOUNT_AGE_DAYS * 86400 * TicksPerSecond, MIN_COMMENT_KARMA) :
        w \in {<<Keyword(f), <<"u", "/", "b">> >>, <<Keyword(f), TOP>>} }

\* The comments of the concurrent runs: awards by eligible awarders to
\* targets that exist and are members.
DeliveredConc(f, now) ==
    { Comment(a, <<Keyword(f), tok>>, NoAuthor, <<TRUE, TRUE>>, now,
              MIN_ACCOUNT_AGE_DAYS * 86400 * TicksPerSecond, MIN_COMMENT_KARMA) :
        a \in Awarders, tok \in {<<"u", "/", "b">>, <<"u", "/", "a", "b">>} }

NoComment ==
    [id |-> 0, author |-> NoAuthor, words |-> <<>>, body |-> <<>>, parent |-> NoAuthor,
     exists |-> FALSE, member |-> FALSE, error |-> {}, flair_text |-> <<>>,
     created_utc |-> 0, comment_karma |-> 0]

NoLocals == [mentioned_username |-> <<>>, count |-> 0, given |-> 0]

NothingDone ==
    [outcome |-> "none", asked |-> {}, replies |-> 0, raised |-> FALSE,
     content |-> <<>>, flair |-> <<>>]

NoSnapshot ==
    [cheers_data |-> <<>>, rate_limit_data |-> <<>>, cheers_awarded_data |-> <<>>,
     kudos_data |-> <<>>, disk |-> [f \in Files |-> <<>>], awards |-> <<>>]

Shared ==
    [cheers_data |-> cheers_data, rate_limit_data |-> rate_limit_data,
     cheers_awarded_data |-> cheers_awarded_data, kudos_data |-> kudos_data,
     disk |-> disk, awards |-> awards]

Handlers == 1..NHandlers

(***************************************************************************)
(* The listener: a comment of the stream reaches the handler thread.       *)
(***************************************************************************)
Goto(t, label) == pc' = [pc EXCEPT ![t] = label]

\* The handler sets what it decided and goes on to comment.reply(content).
Reject(t, reason) ==
    /\ out' = [out EXCEPT ![t].outcome = reason]
    /\ Goto(t, "reply")

\* The handler answers a query: content is what the reply tells.
Answer(t, reason, content) ==
    /\ out' = [out EXCEPT ![t].outcome = reason, ![t].content = content]
    /\ Goto(t, "reply")

\* for comment in self.subreddit.stream.comments(skip_existing=True):
\* the stream gives the next comment, c, d ticks after the last one
Arrive(t, c, d) ==
    /\ ncomments' = ncomments + 1
    /\ clock' = clock + d
    \* comment.id: the stream numbers the comments it gives; words is what the
    \* feature will split the body into
    /\ cmd' = [cmd EXCEPT ![t] = [id |-> ncomments + 1]
                                    @@ [c EXCEPT !.words = Words(feature, c.body)]]
    /\ snap' = [snap EXCEPT ![t] = Shared]
    /\ Goto(t, "monitor")
    /\ UNCHANGED <<rlVars, storeVars, eaVars, feature, ledgerVars, loc, out, awards, credited, applied>>

NewComment(t) ==
    /\ pc[t] = "idle"
    /\ ncomments < MaxComments
    /\ \E d \in Delays : \E c \in Delivered(feature, clock + d) : Arrive(t, c, d)

NewCommentConc(t) ==
    /\ pc[t] = "idle"
    /\ ncomments < MaxComments
    /\ \E d \in {0, 1} : \E c \in DeliveredConc(feature, clock + d) : Arrive(t, c, d)

\* The handling of the comment is over (return, continue, or the except
\* clause); the loop goes on and the locals of the handling are gone.
next_iteration(t) ==
    /\ pc[t] = "done"
    /\ Goto(t, "idle")
    /\ cmd' = [cmd EXCEPT ![t] = NoComment]
    /\ loc' = [loc EXCEPT ![t] = NoLocals]
    /\ out' = [out EXCEPT ![t] = NothingDone]
    /\ snap' = [snap EXCEPT ![t] = NoSnapshot]
    /\ UNCHANGED <<clock, rlVars, storeVars, eaVars, feature, ledgerVars, histVars>>

\* a reply whose failure leaves monitor_comments
reply_escapes(t) ==
    /\ pc[t] = "reply"
    /\ \E ok \in BOOLEAN :
          /\ out' = [out EXCEPT ![t].asked = @ \cup {"reply"},
                                ![t].replies = IF ok THEN @ + 1 ELSE @,
                                ![t].raised = ~ok,
                                ![t].content = IF out[t].outcome = "ok"
                                               THEN <<loc[t].count>> ELSE @]
          /\ Goto(t, IF ok THEN "done" ELSE "backoff")
    /\ UNCHANGED <<clock, rlVars, storeVars, eaVars, feature, ledgerVars, cmd, loc, snap, histVars>>

\* comment.reply(content): the reply is posted, or the platform raises. The
\* content of the reply to an award is built just before, with the count the
\* handler holds: f"... They now have {cheers_count} cheers."
reply(t) ==
    /\ pc[t] = "reply"
    /\ \E ok \in BOOLEAN :
          out' = [out EXCEPT ![t].asked = @ \cup {"reply"},
                             ![t].replies = IF ok THEN @ + 1 ELSE @,
                             ![t].raised = ~ok,
                             ![t].content = IF out[t].outcome = "ok"
                                            THEN <<loc[t].count>> ELSE @]
    /\ Goto(t, "done")
    /\ UNCHANGED <<clock, rlVars, storeVars, eaVars, feature, ledgerVars, cmd, loc, snap, histVars>>

\* The text before the digits of the count token: '(:1DFV1:' of cheers, and
\* '(' with the medal emoji, one character written "@" here, of kudos.
Marker(f) ==
    IF f = "cheers" THEN <<"(", ":", "1", "D", "F", "V", "1", ":">> ELSE <<"(", "@">>

\* f"(:1DFV1:{cheers_count})"
CountToken(f, n) == Marker(f) \o str_int(n) \o <<")">>

\* The text from position i to its end is a count token: \(:1DFV1:\d+\)
IsTokenFrom(f, s, i) ==
    LET m == Marker(f) IN
    /\ i >= 1
    /\ i + Len(m) + 1 <= Len(s)
    /\ SubSeq(s, i, i + Len(m) - 1) = m
    /\ s[Len(s)] = ")"
    /\ \A j \in (i + Len(m))..(Len(s) - 1) : IsDigit(s[j])

\* The text ends with a count token.
EndsWithToken(f, s) == \E i \in 1..Len(s) : IsTokenFrom(f, s, i)

\* The text without the count token it ends with.
CutToken(f, s) == SubSeq(s, 1, (CHOOSE i \in 1..Len(s) : IsTokenFrom(f, s, i)) - 1)

\* re.sub(r'\(:1DFV1:\d+\)$', '', flair_text): the token goes when it is the
\* end of the text, or is followed only by the newline the text ends with
re_sub(f, s) ==
    IF EndsWithToken(f, s) THEN CutToken(f, s)
    ELSE IF /\ s # <<>>
            /\ s[Len(s)] = "\n"
            /\ EndsWithToken(f, SubSeq(s, 1, Len(s) - 1))
    THEN CutToken(f, SubSeq(s, 1, Len(s) - 1)) \o <<"\n">>
    ELSE s

\* Reddit's limit on the flair text
FLAIR_LIMIT == 64

\* update_user_flair: the text handed to self.subreddit.flair.set
new_flair_text(f, existing, count) ==
    LET flair_text == strip(re_sub(f, existing))
        suffix == <<" ">> \o CountToken(f, count)
        text == strip(flair_text \o suffix)
    IN  IF Len(text) > FLAIR_LIMIT
        THEN LET allowed_length == FLAIR_LIMIT - Len(suffix)
                 cut == IF allowed_length < Len(flair_text) THEN allowed_length
                        ELSE Len(flair_text)
             IN  rstrip(SubSeq(flair_text, 1, cut)) \o suffix
        ELSE text

\* a badge update whose failure takes the received counts back
update_user_flair_rollback(t) ==
    /\ pc[t] = "flair"
    /\ \E ok \in BOOLEAN :
          /\ out' = [out EXCEPT ![t].asked = @ \cup {"badge"}, ![t].raised = ~ok]
          /\ Goto(t, IF ok THEN "reply" ELSE "done")
          /\ cheers_data' = IF ok THEN cheers_data ELSE snap[t].cheers_data
    /\ UNCHANGED <<clock, rlVars, storeVars, eaVars, feature, rate_limit_data, cheers_awarded_data,
                   kudos_data, disk, fstate, cmd, loc, snap, histVars>>

\* self.subreddit.flair(username) and flair.set(...): done, or the platform raises
update_user_flair(t) ==
    /\ pc[t] = "flair"
    /\ \E ok \in BOOLEAN :
          /\ out' = [out EXCEPT
                        ![t].asked = @ \cup {"badge"},
                        ![t].raised = ~ok,
                        ![t].flair =
                            IF ok THEN new_flair_text(feature, cmd[t].flair_text,
                                                      loc[t].count)
                            ELSE @]
          /\ Goto(t, IF ok THEN "reply" ELSE "done")
    /\ UNCHANGED <<clock, rlVars, storeVars, eaVars, feature, ledgerVars, cmd, loc, snap, histVars>>

(***************************************************************************)
(* features/cheers.py                                                      *)
(***************************************************************************)
\* a listener that hands every command on, its own included
c_monitor_comments_no_skip(t) ==
    /\ feature = "cheers"
    /\ pc[t] = "monitor"
    /\ IF ~Recognized("cheers", cmd[t].body)
       THEN /\ out' = [out EXCEPT ![t].outcome = "nothing"]
            /\ Goto(t, "done")
       ELSE /\ Goto(t, "process")
            /\ UNCHANGED out
    /\ UNCHANGED <<clock, rlVars, storeVars, eaVars, feature, ledgerVars, cmd, loc, snap,
                   histVars>>

\* monitor_comments: the bot's own comments are skipped, and so are the
\* bodies in which the search for the command finds nothing
c_monitor_comments(t) ==
    /\ feature = "cheers"
    /\ pc[t] = "monitor"
    /\ IF cmd[t].author = REDDIT_USERNAME
       THEN /\ out' = [out EXCEPT ![t].outcome = "ignored"]
            /\ Goto(t, "done")
       ELSE IF ~Recognized("cheers", cmd[t].body)
       THEN /\ out' = [out EXCEPT ![t].outcome = "nothing"]
            /\ Goto(t, "done")
       ELSE /\ Goto(t, "process")
            /\ UNCHANGED out
    /\ UNCHANGED <<clock, rlVars, storeVars, eaVars, feature, ledgerVars, cmd, loc, snap, histVars>>

\* The target of process_cheers_command: words[idx], 'to' skipped, or the
\* parent's author; NoAuthor when there is none.
CheersTarget(c) ==
    LET idx == IF Len(c.words) > 1 /\ lower(c.words[2]) = TO THEN 2 ELSE 1
    IN  IF Len(c.words) > idx THEN c.words[idx + 1] ELSE c.parent

\* process_cheers_command without the two query branches
process_cheers_command_no_queries(t) ==
    /\ feature = "cheers"
    /\ pc[t] = "process"
    /\ LET c == cmd[t] IN
       IF CheersTarget(c) = NoAuthor
       THEN Reject(t, "notarget") /\ UNCHANGED loc
       ELSE /\ loc' = [loc EXCEPT ![t].mentioned_username =
                         lstrip(lstrip(lstrip(lstrip(CheersTarget(c),
                             {"u", "/"}), {"/"}), {"u", "/"}), {"/"})]
            /\ Goto(t, "c_exists")
            /\ UNCHANGED out
    /\ UNCHANGED <<clock, rlVars, storeVars, eaVars, feature, ledgerVars, cmd, snap, histVars>>

process_cheers_command(t) ==
    /\ feature = "cheers"
    /\ pc[t] = "process"
    /\ LET c == cmd[t] IN
       IF Len(c.words) >= 2 /\ lower(c.words[2]) = ME
       THEN /\ Answer(t, "me", <<Get(cheers_data, lower(c.author), 0)>>)
            /\ UNCHANGED loc
       ELSE IF Len(c.words) >= 2 /\ lower(c.words[2]) = TOP
       THEN Answer(t, "top", top_users(cheers_data)) /\ UNCHANGED loc
       ELSE IF CheersTarget(c) = NoAuthor
       THEN Reject(t, "notarget") /\ UNCHANGED loc
       ELSE \* mentioned_username.lstrip('u/').lstrip('/'), here and again
            \* on entering handle_cheers
            /\ loc' = [loc EXCEPT ![t].mentioned_username =
                         lstrip(lstrip(lstrip(lstrip(CheersTarget(c),
                             {"u", "/"}), {"/"}), {"u", "/"}), {"/"})]
            /\ Goto(t, "c_exists")
            /\ UNCHANGED out
    /\ UNCHANGED <<clock, rlVars, storeVars, eaVars, feature, ledgerVars, cmd, snap, histVars>>

\* is_valid_reddit_user: True when user.id can be fetched; any exception of
\* the lookup, whatever its cause, is logged and gives False
is_valid_reddit_user(c) ==
    IF "existence" \in c.error THEN FALSE ELSE c.exists

\* is_user_part_of_subreddit: whether the listings show the subreddit; any
\* exception of the lookup is logged and gives False
is_user_part_of_subreddit(c) ==
    IF "membership" \in c.error THEN FALSE ELSE c.member

\* handle_cheers: if not self.is_valid_reddit_user(mentioned_username)
c_is_valid_reddit_user(t) ==
    /\ pc[t] = "c_exists"
    /\ out' = [out EXCEPT ![t].asked = @ \cup {"existence"},
                          ![t].outcome = IF is_valid_reddit_user(cmd[t]) THEN @
                                         ELSE "exist"]
    /\ Goto(t, IF is_valid_reddit_user(cmd[t]) THEN "c_member" ELSE "reply")
    /\ UNCHANGED <<clock, rlVars, storeVars, eaVars, feature, ledgerVars, cmd, loc, snap, histVars>>

\* handle_cheers: if not self.is_user_part_of_subreddit(mentioned_username)
c_is_user_part_of_subreddit(t) ==
    /\ pc[t] = "c_member"
    /\ out' = [out EXCEPT ![t].asked = @ \cup {"membership"},
                          ![t].outcome = IF is_user_part_of_subreddit(cmd[t]) THEN @
                                         ELSE "member"]
    /\ Goto(t, IF is_user_part_of_subreddit(cmd[t]) THEN "c_self" ELSE "reply")
    /\ UNCHANGED <<clock, rlVars, storeVars, eaVars, feature, ledgerVars, cmd, loc, snap, histVars>>

\* handle_cheers: if mentioned_username.lower() == author_name.lower()
c_self_check(t) ==
    /\ pc[t] = "c_self"
    /\ IF lower(loc[t].mentioned_username) = lower(cmd[t].author)
       THEN Reject(t, "self")
       ELSE Goto(t, "c_can_award") /\ UNCHANGED out
    /\ UNCHANGED <<clock, rlVars, storeVars, eaVars, feature, ledgerVars, cmd, loc, snap, histVars>>

\* the security checks with the karma looked at first
can_award_cheers_karma_first(author, now, table) ==
    IF author.comment_karma < MIN_COMMENT_KARMA THEN "karma"
    ELSE IF /\ Has(table, author.author)
            /\ now - strptime(Get(table, author.author, 0))
                  < CHEERS_COOLDOWN_SECONDS * TicksPerSecond
    THEN "cooldown"
    ELSE IF days(now - author.created_utc) < MIN_ACCOUNT_AGE_DAYS THEN "age"
    ELSE "ok"
\* can_award_cheers: the cooldown, then the account age, then the karma
can_award_cheers(author, now, table) ==
    IF /\ Has(table, author.author)
       /\ now - strptime(Get(table, author.author, 0))
             < CHEERS_COOLDOWN_SECONDS * TicksPerSecond
    THEN "cooldown"
    ELSE IF days(now - author.created_utc) < MIN_ACCOUNT_AGE_DAYS THEN "age"
    ELSE IF author.comment_karma < MIN_COMMENT_KARMA THEN "karma"
    ELSE "ok"

\* the security checks with the cooldown stamped before the decision
c_security_checks_stamp_first(t) ==
    /\ pc[t] = "c_can_award"
    /\ rate_limit_data' = Put(rate_limit_data, cmd[t].author, strftime(clock))
    /\ LET r == can_award_cheers(cmd[t], clock, rate_limit_data) IN
       IF r # "ok"
       THEN Reject(t, r)
       ELSE /\ out' = [out EXCEPT ![t].outcome = "ok"]
            /\ Goto(t, "c_stamp")
    /\ UNCHANGED <<clock, rlVars, storeVars, eaVars, feature, cheers_data, cheers_awarded_data, kudos_data,
                   disk, fstate, cmd, loc, snap, histVars>>

\* handle_cheers: can_award, message = self.can_award_cheers(awarder)
c_security_checks(t) ==
    /\ pc[t] = "c_can_award"
    /\ LET r == can_award_cheers(cmd[t], clock, rate_limit_data) IN
       IF r # "ok"
       THEN Reject(t, r)
       ELSE /\ out' = [out EXCEPT ![t].outcome = "ok"]
            /\ Goto(t, "c_stamp")
    /\ UNCHANGED <<clock, rlVars, storeVars, eaVars, feature, ledgerVars, cmd, loc, snap, histVars>>

\* self.rate_limit_data[author_name] = datetime.utcnow().strftime(...)
c_update_rate_limit(t) ==
    /\ pc[t] = "c_stamp"
    /\ rate_limit_data' = Put(rate_limit_data, cmd[t].author, strftime(clock))
    /\ awards' = Append(awards, <<cmd[t].author, clock>>)
    /\ Goto(t, "c_save_rate")
    /\ UNCHANGED <<clock, rlVars, storeVars, eaVars, feature, cheers_data, cheers_awarded_data, kudos_data,
                   disk, fstate, cmd, loc, out, snap, credited, ncomments, applied>>

\* the cooldown table left in memory only
c_save_rate_limit_skipped(t) ==
    /\ pc[t] = "c_save_rate"
    /\ Goto(t, "c_incr")
    /\ UNCHANGED <<clock, rlVars, storeVars, eaVars, feature, ledgerVars, cmd, loc, out, snap, histVars>>

\* self.save_json_data(self.rate_limit_data, self.RATE_LIMIT_FILE)
c_save_rate_limit(t) ==
    /\ pc[t] = "c_save_rate"
    /\ disk' = save_json_data(disk, rate_limit_data, RATE_LIMIT_FILE)
    /\ fstate' = [fstate EXCEPT ![RATE_LIMIT_FILE] = "ok"]
    /\ Goto(t, "c_incr")
    /\ UNCHANGED <<clock, rlVars, storeVars, eaVars, feature, cheers_data, rate_limit_data,
                   cheers_awarded_data, kudos_data, cmd, loc, out, snap, histVars>>

\* with self.lock: cheers_count = get(...) + 1; self.cheers_data[...] = cheers_count
c_increment(t) ==
    /\ pc[t] = "c_incr"
    /\ LET key == lower(loc[t].mentioned_username)
           cheers_count == Get(cheers_data, key, 0) + 1
       IN  /\ cheers_data' = Put(cheers_data, key, cheers_count)
           /\ loc' = [loc EXCEPT ![t].count = cheers_count]
           /\ credited' = Put(credited, key, Get(credited, key, 0) + 1)
           /\ applied' = Append(applied, cmd[t].id)
    /\ Goto(t, "c_save_cheers")
    /\ UNCHANGED <<clock, rlVars, storeVars, eaVars, feature, rate_limit_data, cheers_awarded_data,
                   kudos_data, disk, fstate, cmd, out, snap, awards, ncomments>>

\* the received counts left in memory only
c_save_cheers_skipped(t) ==
    /\ pc[t] = "c_save_cheers"
    /\ Goto(t, "c_given_read")
    /\ UNCHANGED <<clock, rlVars, storeVars, eaVars, feature, ledgerVars, cmd, loc, out, snap, histVars>>

\* self.save_json_data(self.cheers_data, self.CHEERS_FILE)
c_save_cheers(t) ==
    /\ pc[t] = "c_save_cheers"
    /\ disk' = save_json_data(disk, cheers_data, CHEERS_FILE)
    /\ fstate' = [fstate EXCEPT ![CHEERS_FILE] = "ok"]
    /\ Goto(t, "c_given_read")
    /\ UNCHANGED <<clock, rlVars, storeVars, eaVars, feature, cheers_data, rate_limit_data,
                   cheers_awarded_data, kudos_data, cmd, loc, out, snap, histVars>>

\* self.cheers_awarded_data.get(author_name.lower(), 0) + 1 (no lock is held)
c_given_read(t) ==
    /\ pc[t] = "c_given_read"
    /\ loc' = [loc EXCEPT ![t].given =
                  Get(cheers_awarded_data, lower(cmd[t].author), 0) + 1]
    /\ Goto(t, "c_given_write")
    /\ UNCHANGED <<clock, rlVars, storeVars, eaVars, feature, ledgerVars, cmd, out, snap, histVars>>

\* the given count written under the target's handle
c_given_write_target_key(t) ==
    /\ pc[t] = "c_given_write"
    /\ cheers_awarded_data' =
          Put(cheers_awarded_data, lower(loc[t].mentioned_username), loc[t].given)
    /\ Goto(t, "c_save_awarded")
    /\ UNCHANGED <<clock, rlVars, storeVars, eaVars, feature, cheers_data, rate_limit_data, kudos_data,
                   disk, fstate, cmd, loc, out, snap, histVars>>

\* self.cheers_awarded_data[author_name.lower()] = ...
c_given_write(t) ==
    /\ pc[t] = "c_given_write"
    /\ cheers_awarded_data' =
          Put(cheers_awarded_data, lower(cmd[t].author), loc[t].given)
    /\ Goto(t, "c_save_awarded")
    /\ UNCHANGED <<clock, rlVars, storeVars, eaVars, feature, cheers_data, rate_limit_data, kudos_data,
                   disk, fstate, cmd, loc, out, snap, histVars>>

\* the given counts left in memory only
c_save_awarded_skipped(t) ==
    /\ pc[t] = "c_save_awarded"
    /\ Goto(t, "flair")
    /\ UNCHANGED <<clock, rlVars, storeVars, eaVars, feature, ledgerVars, cmd, loc, out, snap, histVars>>

\* self.save_json_data(self.cheers_awarded_data, self.CHEERS_AWARDED_FILE)
c_save_awarded(t) ==
    /\ pc[t] = "c_save_awarded"
    /\ disk' = save_json_data(disk, cheers_awarded_data, CHEERS_AWARDED_FILE)
    /\ fstate' = [fstate EXCEPT ![CHEERS_AWARDED_FILE] = "ok"]
    /\ Goto(t, "flair")
    /\ UNCHANGED <<clock, rlVars, storeVars, eaVars, feature, cheers_data, rate_limit_data,
                   cheers_awarded_data, kudos_data, cmd, loc, out, snap, histVars>>

(***************************************************************************)
(* features/kudos.py                                                       *)
(***************************************************************************)
\* monitor_comments: the bot's own comments are skipped, and the bodies that
\* do not start with the command; '!kudos me' and
\* '!kudos top' are answered here; any other second word goes to handle_kudos
k_monitor_comments(t) ==
    /\ feature = "kudos"
    /\ pc[t] = "monitor"
    /\ LET c == cmd[t] IN
       IF c.author = REDDIT_USERNAME
       THEN /\ out' = [out EXCEPT ![t].outcome = "ignored"]
            /\ Goto(t, "done")
            /\ UNCHANGED loc
       ELSE IF ~Recognized("kudos", c.body)
       THEN /\ out' = [out EXCEPT ![t].outcome = "nothing"]
            /\ Goto(t, "done")
            /\ UNCHANGED loc
       ELSE IF Len(c.words) = 2 /\ lower(c.words[2]) = ME
       THEN Answer(t, "me", <<Get(kudos_data, c.author, 0)>>) /\ UNCHANGED loc
       ELSE IF Len(c.words) = 2 /\ lower(c.words[2]) = TOP
       THEN Answer(t, "top", top_users(kudos_data)) /\ UNCHANGED loc
       ELSE IF Len(c.words) >= 2
       THEN /\ loc' = [loc EXCEPT ![t].mentioned_username = c.words[2]]
            /\ Goto(t, "k_format")
            /\ UNCHANGED out
       ELSE /\ out' = [out EXCEPT ![t].outcome = "nothing"]
            /\ Goto(t, "done")
            /\ UNCHANGED loc
    /\ UNCHANGED <<clock, rlVars, storeVars, eaVars, feature, ledgerVars, cmd, snap, histVars>>

\* handle_kudos: if not mentioned_username.startswith('u/'); mentioned_username[2:]
k_check_format(t) ==
    /\ pc[t] = "k_format"
    /\ LET m == loc[t].mentioned_username IN
       IF ~startswith(m, <<"u", "/">>)
       THEN Reject(t, "format") /\ UNCHANGED loc
       ELSE /\ loc' = [loc EXCEPT ![t].mentioned_username = SubSeq(m, 3, Len(m))]
            /\ Goto(t, "k_exists")
            /\ UNCHANGED out
    /\ UNCHANGED <<clock, rlVars, storeVars, eaVars, feature, ledgerVars, cmd, snap, histVars>>

\* handle_kudos: if not self.is_valid_reddit_user(mentioned_username)
k_is_valid_reddit_user(t) ==
    /\ pc[t] = "k_exists"
    /\ out' = [out EXCEPT ![t].asked = @ \cup {"existence"},
                          ![t].outcome = IF is_valid_reddit_user(cmd[t]) THEN @
                                         ELSE "exist"]
    /\ Goto(t, IF is_valid_reddit_user(cmd[t]) THEN "k_member" ELSE "reply")
    /\ UNCHANGED <<clock, rlVars, storeVars, eaVars, feature, ledgerVars, cmd, loc, snap, histVars>>

\* handle_kudos: if not self.is_user_part_of_subreddit(mentioned_username)
k_is_user_part_of_subreddit(t) ==
    /\ pc[t] = "k_member"
    /\ out' = [out EXCEPT ![t].asked = @ \cup {"membership"},
                          ![t].outcome = IF is_user_part_of_subreddit(cmd[t]) THEN "ok"
                                         ELSE "member"]
    /\ Goto(t, IF is_user_part_of_subreddit(cmd[t]) THEN "k_read" ELSE "reply")
    /\ UNCHANGED <<clock, rlVars, storeVars, eaVars, feature, ledgerVars, cmd, loc, snap, histVars>>

\* kudos_count = self.kudos_data.get(mentioned_username, 0) + 1 (no lock)
k_read(t) ==
    /\ pc[t] = "k_read"
    /\ loc' = [loc EXCEPT ![t].count =
                  Get(kudos_data, loc[t].mentioned_username, 0) + 1]
    /\ Goto(t, "k_write")
    /\ UNCHANGED <<clock, rlVars, storeVars, eaVars, feature, ledgerVars, cmd, out, snap, histVars>>

\* self.kudos_data[mentioned_username] = kudos_count
k_write(t) ==
    /\ pc[t] = "k_write"
    /\ LET key == loc[t].mentioned_username IN
       /\ kudos_data' = Put(kudos_data, key, loc[t].count)
       /\ credited' = Put(credited, key, Get(credited, key, 0) + 1)
       /\ applied' = Append(applied, cmd[t].id)
    /\ Goto(t, "k_save")
    /\ UNCHANGED <<clock, rlVars, storeVars, eaVars, feature, cheers_data, rate_limit_data,
                   cheers_awarded_data, disk, fstate, cmd, loc, out, snap, awards, ncomments>>

\* self.save_json_data(self.kudos_data, self.KUDOS_FILE)
k_save(t) ==
    /\ pc[t] = "k_save"
    /\ disk' = save_json_data(disk, kudos_data, KUDOS_FILE)
    /\ fstate' = [fstate EXCEPT ![KUDOS_FILE] = "ok"]
    /\ Goto(t, "flair")
    /\ UNCHANGED <<clock, rlVars, storeVars, eaVars, feature, cheers_data, rate_limit_data,
                   cheers_awarded_data, kudos_data, cmd, loc, out, snap, histVars>>

(***************************************************************************)
(* features/quips.py                                                       *)
(***************************************************************************)
\* QuipsFeature.COOLDOWN_SECONDS
COOLDOWN_SECONDS == 600

\* The word that asks for a quip: "!gimmy".
GIMMY == <<"!", "g">>

\* re.search(pattern, comment.body, re.IGNORECASE) is not None, for a pattern
\* that is a plain word
contains(body, kw) == \E i \in 1..Len(body) : KeywordAt(body, i, kw)

\* monitor_comments: the bot's own comments are skipped; a comment goes to
\* process_comment when it replies to the bot or holds '!gimmy', and does not
\* hold '!cheers'
q_monitor_comments(t) ==
    /\ feature = "quips"
    /\ pc[t] = "monitor"
    /\ LET c == cmd[t]
           is_reply_to_bot == c.parent = REDDIT_USERNAME
           contains_gimmy == contains(c.body, GIMMY)
           invokes_cheers == contains(c.body, Keyword("cheers"))
       IN  IF c.author = REDDIT_USERNAME
           THEN /\ out' = [out EXCEPT ![t].outcome = "ignored"]
                /\ Goto(t, "done")
           ELSE IF (is_reply_to_bot \/ contains_gimmy) /\ ~invokes_cheers
           THEN /\ Goto(t, "q_process")
                /\ UNCHANGED out
           ELSE /\ out' = [out EXCEPT ![t].outcome = "nothing"]
                /\ Goto(t, "done")
    /\ UNCHANGED <<clock, rlVars, storeVars, eaVars, feature, ledgerVars, cmd, loc, snap, histVars>>

\* process_comment, the rate limiting check and the update of the table.
\* On cooldown the notice is never built: time_remaining is computed from
\* time_since_last_response, a name that is bound nowhere, so line 97
\* raises NameError; the except clause of monitor_comments logs it and the
\* loop goes on.
q_process_comment(t) ==
    /\ feature = "quips"
    /\ pc[t] = "q_process"
    /\ LET author_name == cmd[t].author
           current_time == clock
       IN  IF /\ Has(rate_limit_data, author_name)
              /\ current_time - strptime(Get(rate_limit_data, author_name, 0))
                    < COOLDOWN_SECONDS * TicksPerSecond
           THEN /\ out' = [out EXCEPT ![t].outcome = "cooldown", ![t].raised = TRUE]
                /\ Goto(t, "done")
                /\ UNCHANGED <<rate_limit_data, awards>>
           ELSE /\ rate_limit_data' =
                      Put(rate_limit_data, author_name, strftime(current_time))
                /\ awards' = Append(awards, <<author_name, current_time>>)
                /\ out' = [out EXCEPT ![t].outcome = "ok"]
                /\ Goto(t, "q_save")
    /\ UNCHANGED <<clock, rlVars, storeVars, eaVars, feature, cheers_data, cheers_awarded_data,
                   kudos_data, disk, fstate, cmd, loc, snap, credited, ncomments, applied>>

\* self.save_json_data(self.rate_limit_data, self.RATE_LIMIT_FILE)
q_save_rate_limit(t) ==
    /\ feature = "quips"
    /\ pc[t] = "q_save"
    /\ disk' = save_json_data(disk, rate_limit_data, QUIPS_RATE_LIMIT_FILE)
    /\ fstate' = [fstate EXCEPT ![QUIPS_RATE_LIMIT_FILE] = "ok"]
    /\ Goto(t, "q_llm")
    /\ UNCHANGED <<clock, rlVars, storeVars, eaVars, feature, cheers_data, rate_limit_data,
                   cheers_awarded_data, kudos_data, cmd, loc, out, snap, histVars>>

\* response = self.llm_chain.invoke(...): an answer, or an exception that is
\* logged and ends process_comment
q_llm_invoke(t) ==
    /\ feature = "quips"
    /\ pc[t] = "q_llm"
    /\ out' = [out EXCEPT ![t].asked = @ \cup {"llm"}]
    /\ \E ok \in BOOLEAN : Goto(t, IF ok THEN "q_reply" ELSE "done")
    /\ UNCHANGED <<clock, rlVars, storeVars, eaVars, feature, ledgerVars, cmd, loc, snap, histVars>>

\* comment.reply(response_content) inside its own try: posted, or the
\* exception is logged
q_reply(t) ==
    /\ feature = "quips"
    /\ pc[t] = "q_reply"
    /\ \E ok \in BOOLEAN :
          out' = [out EXCEPT ![t].asked = @ \cup {"reply"},
                             ![t].replies = IF ok THEN @ + 1 ELSE @]
    /\ Goto(t, "done")
    /\ UNCHANGED <<clock, rlVars, storeVars, eaVars, feature, ledgerVars, cmd, loc, snap, histVars>>

\* The comments the quips listener is given: by two accounts and by the bot,
\* with and without '!gimmy', with '!cheers' beside it, in reply to the bot,
\* to another account or to nothing.
DeliveredQuips(now) ==
    { [Comment(a, <<GIMMY>>, p, <<TRUE, TRUE>>, now,
               MIN_ACCOUNT_AGE_DAYS * 86400 * TicksPerSecond, MIN_COMMENT_KARMA)
            EXCEPT !.body = x] :
        a \in Awarders \cup {REDDIT_USERNAME},
        p \in {NoAuthor, REDDIT_USERNAME, <<"a", "b">>},
        x \in { GIMMY, <<"h", "s">>, <<"h", "s", " ">> \o GIMMY,
                GIMMY \o <<" ">> \o Keyword("cheers") } }

\* The delays between two comments to the quips listener, in ticks: none, and
\* around the cooldown.
QuipDelays ==
    { 0, COOLDOWN_SECONDS * TicksPerSecond - 1, COOLDOWN_SECONDS * TicksPerSecond }

NewCommentQuips(t) ==
    /\ pc[t] = "idle"
    /\ ncomments < MaxComments
    /\ \E d \in QuipDelays : \E c \in DeliveredQuips(clock + d) : Arrive(t, c, d)

(***************************************************************************)
(* Errors: the except clauses of monitor_comments and of run                *)
(***************************************************************************)
\* time.sleep(60) of run's except clause, in seconds
BACKOFF_SECONDS == 60

\* The steps of the handling that can raise besides the badge update and the
\* reply: reading the comment (comment.author is None), comment.parent(),
\* strptime of the stored stamp, and the open and json.dump of a save.
RaisingSteps ==
    {"monitor", "process", "c_can_award", "c_save_rate", "c_save_cheers",
     "c_save_awarded", "k_save"}

\* an except clause that takes back what the handling changed in memory
handling_raises_rollback(t) ==
    /\ pc[t] \in RaisingSteps
    /\ out' = [out EXCEPT ![t].raised = TRUE]
    /\ Goto(t, "done")
    /\ cheers_data' = snap[t].cheers_data
    /\ rate_limit_data' = snap[t].rate_limit_data
    /\ cheers_awarded_data' = snap[t].cheers_awarded_data
    /\ kudos_data' = snap[t].kudos_data
    /\ UNCHANGED <<clock, rlVars, storeVars, eaVars, feature, disk, fstate, cmd, loc, snap,
                   histVars>>

\* An exception inside the try of monitor_comments: except Exception logs it
\* and the loop continues with the next comment.
handling_raises(t) ==
    /\ pc[t] \in RaisingSteps
    /\ out' = [out EXCEPT ![t].raised = TRUE]
    /\ Goto(t, "done")
    /\ UNCHANGED <<clock, rlVars, storeVars, eaVars, feature, ledgerVars, cmd, loc, snap, histVars>>

\* The stream itself raises: the for statement is outside the try of
\* monitor_comments, the exception leaves it and run's except clause has it.
stream_raises(t) ==
    /\ pc[t] = "idle"
    /\ ncomments < MaxComments
    /\ ncomments' = ncomments + 1
    /\ snap' = [snap EXCEPT ![t] = Shared]
    /\ Goto(t, "backoff")
    /\ UNCHANGED <<clock, rlVars, storeVars, eaVars, feature, ledgerVars, cmd, loc, out, awards,
                   credited, applied>>

\* run: except Exception: logging.error(...); time.sleep(60)
run_sleep(t) ==
    /\ pc[t] = "backoff"
    /\ clock' = clock + BACKOFF_SECONDS * TicksPerSecond
    /\ Goto(t, "run")
    /\ UNCHANGED <<rlVars, storeVars, eaVars, feature, ledgerVars, cmd, loc, out, snap, histVars>>

\* a restart that builds the mappings anew
run_monitor_comments_fresh(t) ==
    /\ pc[t] = "run"
    /\ Goto(t, "idle")
    /\ cheers_data' = <<>>
    /\ rate_limit_data' = <<>>
    /\ cheers_awarded_data' = <<>>
    /\ kudos_data' = <<>>
    /\ snap' = [snap EXCEPT ![t] = NoSnapshot]
    /\ UNCHANGED <<clock, rlVars, storeVars, eaVars, feature, disk, fstate, cmd, loc, out, histVars>>

\* run: while True: ... self.monitor_comments() again, on the same instance
\* (the weekly post is not due again within the days the model covers)
run_monitor_comments(t) ==
    /\ pc[t] = "run"
    /\ Goto(t, "idle")
    /\ snap' = [snap EXCEPT ![t] = NoSnapshot]
    /\ UNCHANGED <<clock, rlVars, storeVars, eaVars, feature, ledgerVars, cmd, loc, out, histVars>>

\* Awards to an account that exists and is active, for which the platform
\* fails to answer one of the two lookups (a network or server error).
LookupFails(f, now) ==
    { [Comment(<<"b">>, <<Keyword(f), <<"u", "/", "a", "b">> >>, NoAuthor,
               <<TRUE, TRUE>>, now, MIN_ACCOUNT_AGE_DAYS * 86400 * TicksPerSecond,
               MIN_COMMENT_KARMA) EXCEPT !.error = {e}] :
        e \in {"existence", "membership"} }

\* The comments of the runs with errors: awards by eligible awarders and a
\* query, at once or after the cooldown.
NewCommentRun(t) ==
    /\ pc[t] = "idle"
    /\ ncomments < MaxComments
    /\ \E d \in {0, (CHEERS_COOLDOWN_SECONDS + 1) * TicksPerSecond} :
          \E c \in DeliveredConc(feature, clock + d)
                    \cup { Comment(<<"b">>, <<Keyword(feature), ME>>, NoAuthor,
                                   <<TRUE, TRUE>>, clock + d,
                                   MIN_ACCOUNT_AGE_DAYS * 86400 * TicksPerSecond,
                                   MIN_COMMENT_KARMA) }
                    \cup LookupFails(feature, clock + d) :
              Arrive(t, c, d)

(***************************************************************************)
(* The process: __init__ loads the files, a kill ends it at any point       *)
(***************************************************************************)
\* The files __init__ loads: cheers.py 31-33, kudos.py 26-27.
LoadedFiles(f) ==
    IF f = "cheers" THEN {CHEERS_FILE, RATE_LIMIT_FILE, CHEERS_AWARDED_FILE}
    ELSE {KUDOS_FILE, RATE_LIMIT_FILE}

\* load_json_data: {} when os.path.exists says no, json.load(f) otherwise
load_json_data(file_name) ==
    IF fstate[file_name] = "missing" THEN <<>> ELSE disk[file_name]

\* open(file_name, 'r') raises on a file that cannot be read, json.load on one
\* that is not JSON; load_json_data has no try.
LoadRaises(file_name) == fstate[file_name] \in {"unreadable", "malformed"}

\* main() builds the feature: __init__ loads every file; an exception of a
\* load leaves __init__ and main(), and the process ends.
startup(t) ==
    /\ pc[t] = "stopped"
    /\ IF \E f \in LoadedFiles(feature) : LoadRaises(f)
       THEN /\ Goto(t, "startup_failed")
            /\ UNCHANGED <<cheers_data, rate_limit_data, cheers_awarded_data,
                           kudos_data>>
       ELSE /\ Goto(t, "idle")
            /\ cheers_data' =
                  IF feature = "cheers" THEN load_json_data(CHEERS_FILE) ELSE <<>>
            /\ rate_limit_data' = load_json_data(RATE_LIMIT_FILE)
            /\ cheers_awarded_data' =
                  IF feature = "cheers" THEN load_json_data(CHEERS_AWARDED_FILE)
                  ELSE <<>>
            /\ kudos_data' =
                  IF feature = "kudos" THEN load_json_data(KUDOS_FILE) ELSE <<>>
    /\ loc' = [loc EXCEPT ![t] = NoLocals]
    /\ out' = [out EXCEPT ![t] = NothingDone]
    /\ snap' = [snap EXCEPT ![t] = NoSnapshot]
    \* cmd[t] stays: the comment in hand when the process was killed
    /\ UNCHANGED <<clock, rlVars, storeVars, eaVars, feature, disk, fstate, cmd, histVars>>

\* The file a save step writes.
SavedFile(label) ==
    IF label = "c_save_rate" THEN RATE_LIMIT_FILE
    ELSE IF label = "c_save_cheers" THEN CHEERS_FILE
    ELSE IF label = "c_save_awarded" THEN CHEERS_AWARDED_FILE
    ELSE KUDOS_FILE

SaveSteps == {"c_save_rate", "c_save_cheers", "c_save_awarded", "k_save"}

\* json.dump raises after open(file_name, 'w') has emptied the file (the disk
\* is full, say): what is left of the file is not JSON, and the exception goes
\* to the except clause of monitor_comments.
save_raises(t) ==
    /\ pc[t] \in SaveSteps
    /\ disk' = [disk EXCEPT ![SavedFile(pc[t])] = <<>>]
    /\ fstate' = [fstate EXCEPT ![SavedFile(pc[t])] = "malformed"]
    /\ out' = [out EXCEPT ![t].raised = TRUE]
    /\ Goto(t, "done")
    /\ UNCHANGED <<clock, rlVars, storeVars, eaVars, feature, cheers_data, rate_limit_data,
                   cheers_awarded_data, kudos_data, cmd, loc, snap, histVars>>

\* The process is killed. Inside save_json_data, open(file_name, 'w') has
\* emptied the file and json.dump has written none or a part of the text:
\* what is left is not JSON. The mappings keep what memory held at the kill,
\* until __init__ loads them anew.
crash(t) ==
    /\ pc[t] \notin {"stopped", "startup_failed"}
    /\ pc' = [u \in Handlers |-> "stopped"]
    /\ \/ UNCHANGED <<disk, fstate>>
       \/ /\ pc[t] \in SaveSteps
          /\ disk' = [disk EXCEPT ![SavedFile(pc[t])] = <<>>]
          /\ fstate' = [fstate EXCEPT ![SavedFile(pc[t])] = "malformed"]
    /\ UNCHANGED <<clock, rlVars, storeVars, eaVars, feature, cheers_data, rate_limit_data,
                   cheers_awarded_data, kudos_data, cmd, loc, out, snap, histVars>>

\* The comment in hand at the kill is given to the listener again, with the
\* same id, d ticks later.
redeliver(t) ==
    /\ pc[t] = "idle"
    /\ cmd[t] # NoComment
    /\ ncomments < MaxComments
    /\ \E d \in {0, (CHEERS_COOLDOWN_SECONDS + 1) * TicksPerSecond} :
          clock' = clock + d
    /\ ncomments' = ncomments + 1
    /\ snap' = [snap EXCEPT ![t] = Shared]
    /\ Goto(t, "monitor")
    /\ UNCHANGED <<rlVars, storeVars, eaVars, feature, ledgerVars, cmd, loc, out, awards, credited,
                   applied>>

\* The states the data files can be in before the process starts: none there,
\* or one of the feature's files there in some state.
StartStates(f) ==
    { [x \in Files |-> "missing"] }
        \cup { [[x \in Files |-> "missing"] EXCEPT ![g] = s] :
                  g \in LoadedFiles(f), s \in {"ok", "malformed", "unreadable"} }

(***************************************************************************)
(* The text of a data file: json.dump(data, f) writes it, json.load(f)     *)
(* reads it. A text is a sequence of characters.                           *)
(***************************************************************************)
RECURSIVE dump_items(_)
\* "key": value, "key": value ... in the order of the dict
dump_items(d) ==
    IF d = <<>> THEN <<>>
    ELSE <<"\"">> \o d[1][1] \o <<"\"", ":", " ">> \o str_int(d[1][2])
            \o (IF Len(d) > 1 THEN <<",", " ">> ELSE <<>>)
            \o dump_items(Tail(d))

\* a dump that writes the keys in reverse order
json_dump_reversed(d) ==
    <<"{">> \o dump_items([i \in 1..Len(d) |-> d[Len(d) + 1 - i]]) \o <<"}">>

\* json.dump(data, f) of a dict of handles and counts
json_dump(d) == <<"{">> \o dump_items(d) \o <<"}">>

\* The first position from i on that holds the character c.
IndexFrom(text, i, c) ==
    CHOOSE j \in i..Len(text) :
        text[j] = c /\ \A k \in i..(j - 1) : text[k] # c

\* The first position from i on that holds no digit.
DigitsEnd(text, i) ==
    CHOOSE j \in i..Len(text) :
        ~IsDigit(text[j]) /\ \A k \in i..(j - 1) : IsDigit(text[k])

RECURSIVE load_items(_, _, _)
\* The object read from position i on: a key in quotes, the colon, the
\* number, then a comma or the closing brace; a key read again keeps its
\* place and takes the later value.
load_items(text, i, acc) ==
    IF text[i] = "}" THEN acc
    ELSE LET q == IndexFrom(text, i + 1, "\"")
             key == SubSeq(text, i + 1, q - 1)
             e == DigitsEnd(text, q + 3)
             value == int_str(SubSeq(text, q + 3, e - 1))
         IN  IF text[e] = ","
             THEN load_items(text, e + 2, Put(acc, key, value))
             ELSE Put(acc, key, value)

\* json.load(f) of a text json.dump wrote
json_load(text) == load_items(text, 2, <<>>)

\* The handles of the stored ledgers: "a", "ab", "aba", ...
HandleNo(i) == [j \in 1..i |-> IF j % 2 = 1 THEN "a" ELSE "b"]

\* The counts of the stored ledgers: none yet, one digit, more digits.
StoredCounts == {0, 7, 10, 123}

RECURSIVE Ledgers(_)
\* The ledgers of at most n handles, in every order of insertion.
Ledgers(n) ==
    IF n = 0 THEN {<<>>}
    ELSE LET S == Ledgers(n - 1) IN
         S \cup UNION { { Append(l, <<HandleNo(k), c>>) :
                              k \in {h \in 1..MaxLedger : ~Has(l, HandleNo(h))},
                              c \in StoredCounts } :
                          l \in {x \in S : Len(x) = n - 1} }

\* save_json_data seen at the level of the text: open(file_name, 'w') and
\* json.dump(data, f) put the text of the received counts in place of the
\* file's; the same call again writes it again.
save_json_text(t) ==
    /\ pc[t] \in {"idle", "loaded", "saved", "saved_twice"}
    /\ ftext' = json_dump(cheers_data)
    /\ saved' = cheers_data
    /\ disk' = save_json_data(disk, cheers_data, CHEERS_FILE)
    /\ fstate' = [fstate EXCEPT ![CHEERS_FILE] = "ok"]
    /\ Goto(t, IF pc[t] \in {"saved", "saved_twice"} THEN "saved_twice" ELSE "saved")
    /\ UNCHANGED <<clock, rlVars, eaVars, feature, cheers_data, rate_limit_data,
                   cheers_awarded_data, kudos_data, cmd, loc, out, snap, histVars>>

\* The process ends; what its memory held is gone.
process_ends(t) ==
    /\ pc[t] \in {"idle", "loaded", "saved", "saved_twice"}
    /\ cheers_data' = <<>>
    /\ Goto(t, "stopped")
    /\ UNCHANGED <<clock, rlVars, storeVars, eaVars, feature, rate_limit_data,
                   cheers_awarded_data, kudos_data, disk, fstate, cmd, loc, out,
                   snap, histVars>>

\* load_json_data seen at the level of the text, in __init__ of the next
\* process: {} when there is no file, json.load(f) of its text otherwise.
load_json_text(t) ==
    /\ pc[t] = "stopped"
    /\ cheers_data' =
          IF fstate[CHEERS_FILE] = "missing" THEN <<>> ELSE json_load(ftext)
    /\ Goto(t, "loaded")
    /\ UNCHANGED <<clock, rlVars, storeVars, eaVars, feature, rate_limit_data,
                   cheers_awarded_data, kudos_data, disk, fstate, cmd, loc, out,
                   snap, histVars>>

(***************************************************************************)
(* features/entry_approval.py: the moderation assistant                    *)
(***************************************************************************)
\* time.sleep(300) of run, in seconds
POLL_SECONDS == 300

\* The join-request conversations of the modmail, by id.
ConvIds == {"c1", "c2"}

\* What the platform holds about a conversation: its user is gone
\* (conversation.user is None), is an approved contributor already, the
\* conversation is archived, or none of these.
ConvKinds == {"fresh", "nouser", "approved", "archived"}

\* self.subreddit.modmail.conversations(state='join_requests')
Listing == <<"c1", "c2">>

\* The variables outside the moderation assistant, the clock and the files.
restVars ==
    <<rlVars, feature, cheers_data, rate_limit_data, cheers_awarded_data, kudos_data,
      thrVars, histVars, storeVars>>

\* A file as the file system holds it: its state and its content.
FileOf(name) == <<fstate[name], disk[name]>>

\* list(self.processed_conversations): the ids of the set, in some order
Orders(S) ==
    { s \in [1..Cardinality(S) -> S] : \A i, j \in 1..Cardinality(S) : s[i] = s[j] => i = j }

\* load_processed_conversations: set(data['conversations']) of the file; the
\* empty set when there is no file, or it cannot be read or is not JSON
load_processed_conversations ==
    IF fstate[processed_conversations_file] = "ok"
    THEN { disk[processed_conversations_file][i] :
              i \in 1..Len(disk[processed_conversations_file]) }
    ELSE {}

\* main() builds the feature: __init__ loads the processed set; run() starts
\* its loop.
ea_startup ==
    /\ ea_pc = "stopped"
    /\ processed_conversations' = load_processed_conversations
    /\ ea_pc' = "poll"
    /\ ea_todo' = <<>>
    /\ ea_conv' = "none"
    /\ ea_data' = <<>>
    /\ ea_tf' = "none"
    /\ ea_before' = FileOf(processed_conversations_file)
    /\ UNCHANGED <<clock, restVars, disk, fstate, conversations, ea_marked, ea_rounds,
                   ea_kills>>

\* process_join_requests: the listing is fetched
ea_process_join_requests ==
    /\ ea_pc = "poll"
    /\ ea_rounds < MaxRounds
    /\ ea_rounds' = ea_rounds + 1
    /\ ea_todo' = Listing
    /\ ea_pc' = "next"
    /\ UNCHANGED <<clock, restVars, disk, fstate, processed_conversations, conversations,
                   ea_conv, ea_data, ea_tf, ea_before, ea_marked, ea_kills>>

\* for conversation in modmail_conversations: the next one, skipped when its
\* id is in processed_conversations; after the last one the round is over
ea_next ==
    /\ ea_pc = "next"
    /\ IF ea_todo = <<>>
       THEN /\ ea_pc' = "sleep"
            /\ ea_conv' = "none"
            /\ UNCHANGED ea_todo
       ELSE /\ ea_conv' = Head(ea_todo)
            /\ ea_todo' = Tail(ea_todo)
            /\ ea_pc' = IF Head(ea_todo) \in processed_conversations THEN "next"
                        ELSE "author"
    /\ UNCHANGED <<clock, restVars, disk, fstate, processed_conversations, conversations,
                   ea_data, ea_tf, ea_before, ea_marked, ea_rounds, ea_kills>>

\* run: time.sleep(300), then the next round
ea_sleep ==
    /\ ea_pc = "sleep"
    /\ clock' = clock + POLL_SECONDS * TicksPerSecond
    /\ ea_pc' = "poll"
    /\ UNCHANGED <<restVars, disk, fstate, processed_conversations, conversations,
                   ea_todo, ea_conv, ea_data, ea_tf, ea_before, ea_marked, ea_rounds,
                   ea_kills>>

\* author = conversation.user; if author is None: mark and continue
ea_author ==
    /\ ea_pc = "author"
    /\ ea_pc' = IF conversations[ea_conv].kind = "nouser" THEN "mark" ELSE "approved"
    /\ UNCHANGED <<clock, restVars, disk, fstate, processed_conversations, conversations,
                   ea_todo, ea_conv, ea_data, ea_tf, ea_before, ea_marked, ea_rounds,
                   ea_kills>>

\* is_user_approved: whether the contributor listing has the user; an exception
\* of the listing is logged and gives False
is_user_approved(conv, err) == IF err THEN FALSE ELSE conv.kind = "approved"

\* if self.is_user_approved(author): mark and continue
ea_is_user_approved ==
    /\ ea_pc = "approved"
    /\ \E err \in BOOLEAN :
          ea_pc' = IF is_user_approved(conversations[ea_conv], err) THEN "mark"
                   ELSE "prior"
    /\ UNCHANGED <<clock, restVars, disk, fstate, processed_conversations, conversations,
                   ea_todo, ea_conv, ea_data, ea_tf, ea_before, ea_marked, ea_rounds,
                   ea_kills>>

\* has_prior_conversation: the conversation is in a processed state, or one of
\* its messages is the bot's; an exception (of reddit.user.me(), of reading
\* the messages) is logged and gives False
has_prior_conversation(conv, err) ==
    IF err THEN FALSE ELSE conv.kind = "archived" \/ conv.replies > 0

\* if self.has_prior_conversation(author, conversation): mark and continue
ea_has_prior_conversation ==
    /\ ea_pc = "prior"
    /\ \E err \in BOOLEAN :
          ea_pc' = IF has_prior_conversation(conversations[ea_conv], err) THEN "mark"
                   ELSE "analyze"
    /\ UNCHANGED <<clock, restVars, disk, fstate, processed_conversations, conversations,
                   ea_todo, ea_conv, ea_data, ea_tf, ea_before, ea_marked, ea_rounds,
                   ea_kills>>

\* analyze_user: the listings of the user and the LLM give a recommendation,
\* or one of them raises: the exception leaves process_join_requests and the
\* except clause of run logs it
ea_analyze_user ==
    /\ ea_pc = "analyze"
    /\ \E ok \in BOOLEAN :
          /\ ea_pc' = IF ok THEN "reply" ELSE "sleep"
          /\ ea_todo' = IF ok THEN ea_todo ELSE <<>>
          /\ ea_conv' = IF ok THEN ea_conv ELSE "none"
    /\ UNCHANGED <<clock, restVars, disk, fstate, processed_conversations, conversations,
                   ea_data, ea_tf, ea_before, ea_marked, ea_rounds, ea_kills>>

\* conversation.reply(recommendation_message, author_hidden=author_hidden):
\* the recommendation is in the conversation, or the platform raises
ea_reply ==
    /\ ea_pc = "reply"
    /\ \E ok \in BOOLEAN :
          /\ conversations' =
                IF ok THEN [conversations EXCEPT ![ea_conv].replies = @ + 1]
                ELSE conversations
          /\ ea_pc' = IF ok THEN "mark" ELSE "sleep"
          /\ ea_todo' = IF ok THEN ea_todo ELSE <<>>
          /\ ea_conv' = IF ok THEN ea_conv ELSE "none"
    /\ UNCHANGED <<clock, restVars, disk, fstate, processed_conversations, ea_data, ea_tf,
                   ea_before, ea_marked, ea_rounds, ea_kills>>

\* mark_conversation_processed: self.processed_conversations.add(conversation_id)
ea_mark_conversation_processed ==
    /\ ea_pc = "mark"
    /\ processed_conversations' = processed_conversations \cup {ea_conv}
    /\ ea_marked' = ea_marked \cup {ea_conv}
    /\ ea_pc' = "save_data"
    /\ UNCHANGED <<clock, restVars, disk, fstate, conversations, ea_todo, ea_conv, ea_data,
                   ea_tf, ea_before, ea_rounds, ea_kills>>

\* save_processed_conversations: data = {'conversations': list(...)}
ea_save_data ==
    /\ ea_pc = "save_data"
    /\ \E s \in Orders(processed_conversations) : ea_data' = s
    /\ ea_before' = FileOf(processed_conversations_file)
    /\ ea_pc' = "save_open"
    /\ UNCHANGED <<clock, restVars, disk, fstate, processed_conversations, conversations,
                   ea_todo, ea_conv, ea_tf, ea_marked, ea_rounds, ea_kills>>

\* a save that opens the durable file itself for writing
ea_save_open_in_place ==
    /\ ea_pc = "save_open"
    /\ ea_tf' = processed_conversations_file
    /\ disk' = [disk EXCEPT ![processed_conversations_file] = <<>>]
    /\ fstate' = [fstate EXCEPT ![processed_conversations_file] = "malformed"]
    /\ ea_pc' = "save_dump"
    /\ UNCHANGED <<clock, restVars, processed_conversations, conversations, ea_todo,
                   ea_conv, ea_data, ea_before, ea_marked, ea_rounds, ea_kills>>

\* with tempfile.NamedTemporaryFile('w', delete=False, dir='.', suffix='.tmp')
\* as tf: a new, empty file beside the durable one
ea_save_open ==
    /\ ea_pc = "save_open"
    /\ ea_tf' = TEMP_FILE
    /\ disk' = [disk EXCEPT ![TEMP_FILE] = <<>>]
    /\ fstate' = [fstate EXCEPT ![TEMP_FILE] = "malformed"]
    /\ ea_pc' = "save_dump"
    /\ UNCHANGED <<clock, restVars, processed_conversations, conversations, ea_todo,
                   ea_conv, ea_data, ea_before, ea_marked, ea_rounds, ea_kills>>

\* json.dump(data, tf); tempname = tf.name; the file is closed
ea_save_dump ==
    /\ ea_pc = "save_dump"
    /\ disk' = [disk EXCEPT ![ea_tf] = ea_data]
    /\ fstate' = [fstate EXCEPT ![ea_tf] = "ok"]
    /\ ea_pc' = "save_replace"
    /\ UNCHANGED <<clock, restVars, processed_conversations, conversations, ea_todo,
                   ea_conv, ea_data, ea_tf, ea_before, ea_marked, ea_rounds, ea_kills>>

\* os.replace(tempname, self.processed_conversations_file): in one step the
\* durable name holds the written file and the temporary name is gone
ea_save_replace ==
    /\ ea_pc = "save_replace"
    /\ IF ea_tf = processed_conversations_file
       THEN UNCHANGED <<disk, fstate>>
       ELSE /\ disk' = [disk EXCEPT ![processed_conversations_file] = disk[ea_tf],
                                    ![ea_tf] = <<>>]
            /\ fstate' = [fstate EXCEPT ![processed_conversations_file] = fstate[ea_tf],
                                        ![ea_tf] = "missing"]
    /\ ea_before' = <<fstate'[processed_conversations_file],
                      disk'[processed_conversations_file]>>
    /\ ea_data' = <<>>
    /\ ea_tf' = "none"
    /\ ea_pc' = "next"
    /\ UNCHANGED <<clock, restVars, processed_conversations, conversations, ea_todo,
                   ea_conv, ea_marked, ea_rounds, ea_kills>>

\* The steps of save_processed_conversations that work on files.
EaSaveSteps == {"save_open", "save_dump", "save_replace"}

\* except IOError: the failure of a step of the save is logged; while the
\* text is written the file keeps the part that got there
ea_save_raises ==
    /\ ea_pc \in EaSaveSteps
    /\ IF ea_pc = "save_dump"
       THEN \E n \in 0..(Len(ea_data) - 1) :
               /\ disk' = [disk EXCEPT ![ea_tf] = SubSeq(ea_data, 1, n)]
               /\ fstate' = [fstate EXCEPT ![ea_tf] = "malformed"]
       ELSE UNCHANGED <<disk, fstate>>
    /\ ea_before' = <<fstate'[processed_conversations_file],
                      disk'[processed_conversations_file]>>
    /\ ea_data' = <<>>
    /\ ea_tf' = "none"
    /\ ea_pc' = "next"
    /\ UNCHANGED <<clock, restVars, processed_conversations, conversations, ea_todo,
                   ea_conv, ea_marked, ea_rounds, ea_kills>>

\* The process is killed. While json.dump writes, the file written to keeps
\* the part of the text that got there. Memory keeps what it held until
\* __init__ builds it anew.
ea_kill ==
    /\ ea_pc # "stopped"
    /\ ea_kills < MaxKills
    /\ ea_kills' = ea_kills + 1
    /\ ea_pc' = "stopped"
    /\ IF ea_pc = "save_dump"
       THEN \E n \in 0..(Len(ea_data) - 1) :
               /\ disk' = [disk EXCEPT ![ea_tf] = SubSeq(ea_data, 1, n)]
               /\ fstate' = [fstate EXCEPT ![ea_tf] = "malformed"]
       ELSE UNCHANGED <<disk, fstate>>
    /\ UNCHANGED <<clock, restVars, processed_conversations, conversations, ea_todo,
                   ea_conv, ea_data, ea_tf, ea_before, ea_marked, ea_rounds>>

\* The moderation assistant before main() builds it, apart from the modmail.
EntryApprovalStopped ==
    /\ processed_conversations = {}
    /\ ea_pc = "stopped"
    /\ ea_todo = <<>>
    /\ ea_conv = "none"
    /\ ea_data = <<>>
    /\ ea_tf = "none"
    /\ ea_before = <<"missing", <<>> >>
    /\ ea_marked = {}
    /\ ea_rounds = 0
    /\ ea_kills = 0

\* ... with a modmail of join requests nobody has looked at.
EntryApprovalUnused ==
    /\ EntryApprovalStopped
    /\ conversations = [id \in ConvIds |-> [kind |-> "fresh", replies |-> 0]]

(***************************************************************************)
(* The specifications                                                      *)
(***************************************************************************)
\* The limiter main() builds: RateLimiter(max_calls=55, period=60), unused yet.
RateLimiterIdle ==
    /\ max_calls = 55
    /\ period = 60
    /\ calls = <<>>
    /\ rl_lock = 0
    /\ rl_pc = [t \in Threads |-> "idle"]
    /\ rl_now = [t \in Threads |-> 0]
    /\ rl_wake = [t \in Threads |-> 0]
    /\ rl_kind = [t \in Threads |-> "none"]
    /\ returned = <<>>
    /\ token = [t \in Threads |-> FALSE]
    /\ unmatched = FALSE
    /\ issued = 0
    /\ sent = 0

\* The feature after __init__ with no data file on disk: every load gives {}.
FeatureLoaded ==
    /\ cheers_data = <<>>
    /\ rate_limit_data = <<>>
    /\ cheers_awarded_data = <<>>
    /\ kudos_data = <<>>
    /\ disk = [f \in Files |-> <<>>]
    /\ fstate = [f \in Files |-> "missing"]
    /\ pc = [t \in Handlers |-> "idle"]
    /\ cmd = [t \in Handlers |-> NoComment]
    /\ loc = [t \in Handlers |-> NoLocals]
    /\ out = [t \in Handlers |-> NothingDone]
    /\ snap = [t \in Handlers |-> NoSnapshot]
    /\ awards = <<>>
    /\ credited = <<>>
    /\ ncomments = 0
    /\ applied = <<>>
    /\ ftext = <<>>
    /\ saved = <<>>

InitRL ==
    /\ clock = 0
    /\ max_calls \in 0..MaxMaxCalls
    /\ period \in 1..MaxPeriod
    /\ calls = <<>>
    /\ rl_lock = 0
    /\ rl_pc = [t \in Threads |-> "idle"]
    /\ rl_now = [t \in Threads |-> 0]
    /\ rl_wake = [t \in Threads |-> 0]
    /\ rl_kind = [t \in Threads |-> "none"]
    /\ returned = <<>>
    /\ token = [t \in Threads |-> FALSE]
    /\ unmatched = FALSE
    /\ issued = 0
    /\ sent = 0
    /\ feature = "cheers"
    /\ FeatureLoaded
    /\ EntryApprovalUnused

NextRL ==
    \/ Tick
    \/ \E t \in Threads :
          \/ request_call(t)
          \/ AcquireLock(t)
          \/ AcquireCheck(t)
          \/ AcquireWake(t)
          \/ AcquireAppend(t)
          \/ request_super(t)
          \/ request_raise(t)

SpecRL == InitRL /\ [][NextRL]_vars

\* The same threads with time that advances and a scheduler that is fair:
\* a thread that can go on does, and one that keeps finding the lock free
\* from time to time gets it.
NextRLFair ==
    \/ Advance
    \/ \E t \in Threads :
          \/ request_call(t)
          \/ AcquireLock(t)
          \/ AcquireCheck(t)
          \/ AcquireWake(t)
          \/ AcquireAppend(t)
          \/ request_super(t)
          \/ request_raise(t)

SpecRLFair ==
    /\ InitRL
    /\ [][NextRLFair]_vars
    /\ WF_vars(Advance)
    /\ \A t \in Threads :
          /\ SF_vars(AcquireLock(t))
          /\ WF_vars(AcquireCheck(t))
          /\ WF_vars(AcquireWake(t))
          /\ WF_vars(AcquireAppend(t))

\* A burst: every call of request() is made at the instant the limiter is
\* first used.
BurstCall(t) ==
    /\ clock = 0
    /\ request_call(t)

\* Time passes only while nothing else can happen: a thread sleeps inside
\* acquire() and every other thread waits for the lock it holds or has no
\* request under way.
Elapse ==
    /\ \E t \in Threads : rl_pc[t] = "sleeping" /\ clock < rl_wake[t]
    /\ \A t \in Threads :
          \/ rl_pc[t] = "idle"
          \/ rl_pc[t] = "sleeping" /\ clock < rl_wake[t]
          \/ rl_pc[t] = "acquire" /\ rl_lock # 0
    /\ clock' = clock + 1
    /\ UNCHANGED <<rlVars, hVars>>

NextBurst ==
    \/ Elapse
    \/ \E t \in Threads :
          \/ BurstCall(t)
          \/ AcquireLock(t)
          \/ AcquireCheck(t)
          \/ AcquireWake(t)
          \/ AcquireAppend(t)
          \/ request_super(t)
          \/ request_raise(t)

SpecBurst == InitRL /\ [][NextBurst]_vars

\* The steps of a handler thread on the comment it was given.
Handle(t) ==
    \/ next_iteration(t)
    \/ c_monitor_comments(t)
    \/ process_cheers_command(t)
    \/ c_is_valid_reddit_user(t)
    \/ c_is_user_part_of_subreddit(t)
    \/ c_self_check(t)
    \/ c_security_checks(t)
    \/ c_update_rate_limit(t)
    \/ c_save_rate_limit(t)
    \/ c_increment(t)
    \/ c_save_cheers(t)
    \/ c_given_read(t)
    \/ c_given_write(t)
    \/ c_save_awarded(t)
    \/ k_monitor_comments(t)
    \/ k_check_format(t)
    \/ k_is_valid_reddit_user(t)
    \/ k_is_user_part_of_subreddit(t)
    \/ k_read(t)
    \/ k_write(t)
    \/ k_save(t)
    \/ update_user_flair(t)
    \/ reply(t)

\* One comment is handled at a time by the one listener thread of the feature.
Init ==
    /\ clock = 0
    /\ RateLimiterIdle
    /\ feature \in {"cheers", "kudos"}
    /\ FeatureLoaded
    /\ EntryApprovalUnused

Next == \E t \in {1} : NewComment(t) \/ Handle(t)

Spec == Init /\ [][Next]_vars

\* Several handler threads work on the one feature instance.
NextConc == \E t \in Handlers : NewCommentConc(t) \/ Handle(t)

SpecConc == Init /\ [][NextConc]_vars

\* The listener thread under run(), with the errors of the platform and of
\* the file system.
NextRun ==
    \E t \in {1} :
        \/ NewCommentRun(t)
        \/ Handle(t)
        \/ handling_raises(t)
        \/ save_raises(t)
        \/ stream_raises(t)
        \/ run_sleep(t)
        \/ run_monitor_comments(t)

SpecRun == Init /\ [][NextRun]_vars

\* The process from before its start, with kills and restarts.
InitCrash ==
    /\ clock = 0
    /\ RateLimiterIdle
    /\ feature \in {"cheers", "kudos"}
    /\ cheers_data = <<>>
    /\ rate_limit_data = <<>>
    /\ cheers_awarded_data = <<>>
    /\ kudos_data = <<>>
    /\ disk = [f \in Files |-> <<>>]
    /\ fstate \in StartStates(feature)
    /\ pc = [t \in Handlers |-> "stopped"]
    /\ cmd = [t \in Handlers |-> NoComment]
    /\ loc = [t \in Handlers |-> NoLocals]
    /\ out = [t \in Handlers |-> NothingDone]
    /\ snap = [t \in Handlers |-> NoSnapshot]
    /\ awards = <<>>
    /\ credited = <<>>
    /\ ncomments = 0
    /\ applied = <<>>
    /\ ftext = <<>>
    /\ saved = <<>>
    /\ EntryApprovalUnused

NextCrash ==
    \E t \in {1} :
        \/ startup(t)
        \/ NewCommentRun(t)
        \/ redeliver(t)
        \/ Handle(t)
        \/ crash(t)

SpecCrash == InitCrash /\ [][NextCrash]_vars

\* The quips feature after __init__ with no rate limit file on disk.
InitQuips ==
    /\ clock = 0
    /\ RateLimiterIdle
    /\ feature = "quips"
    /\ FeatureLoaded
    /\ EntryApprovalUnused

NextQuips ==
    \E t \in {1} :
        \/ NewCommentQuips(t)
        \/ q_monitor_comments(t)
        \/ q_process_comment(t)
        \/ q_save_rate_limit(t)
        \/ q_llm_invoke(t)
        \/ q_reply(t)
        \/ next_iteration(t)

SpecQuips == InitQuips /\ [][NextQuips]_vars

\* A cheers feature that holds some ledger of received counts, saves it,
\* ends, and is started again.
InitStore ==
    /\ clock = 0
    /\ RateLimiterIdle
    /\ feature = "cheers"
    /\ cheers_data \in Ledgers(MaxLedger)
    /\ rate_limit_data = <<>>
    /\ cheers_awarded_data = <<>>
    /\ kudos_data = <<>>
    /\ disk = [f \in Files |-> <<>>]
    /\ fstate = [f \in Files |-> "missing"]
    /\ pc = [t \in Handlers |-> "idle"]
    /\ cmd = [t \in Handlers |-> NoComment]
    /\ loc = [t \in Handlers |-> NoLocals]
    /\ out = [t \in Handlers |-> NothingDone]
    /\ snap = [t \in Handlers |-> NoSnapshot]
    /\ awards = <<>>
    /\ credited = <<>>
    /\ ncomments = 0
    /\ applied = <<>>
    /\ ftext = <<>>
    /\ saved = <<>>
    /\ EntryApprovalUnused

NextStore ==
    \E t \in {1} : save_json_text(t) \/ process_ends(t) \/ load_json_text(t)

SpecStore == InitStore /\ [][NextStore]_vars

\* The counts of the leaderboard runs.
BoardCounts == {1, 3, 5}

RECURSIVE BoardLedgers(_)
\* The ledgers whose handles "a", "ab", "aba", ... came in in that order, up
\* to n of them, with every choice of counts.
BoardLedgers(n) ==
    IF n = 0 THEN {<<>>}
    ELSE LET S == BoardLedgers(n - 1) IN
         S \cup { Append(l, <<HandleNo(n), c>>) :
                    l \in {x \in S : Len(x) = n - 1}, c \in BoardCounts }

\* A feature whose __init__ loaded a ledger of received counts.
InitTop ==
    /\ clock = 0
    /\ RateLimiterIdle
    /\ feature \in {"cheers", "kudos"}
    /\ \E l \in BoardLedgers(MaxBoard) :
          /\ cheers_data = IF feature = "cheers" THEN l ELSE <<>>
          /\ kudos_data = IF feature = "kudos" THEN l ELSE <<>>
          /\ disk = [f \in Files |->
                        IF f = (IF feature = "cheers" THEN CHEERS_FILE ELSE KUDOS_FILE)
                        THEN l ELSE <<>>]
          /\ fstate = [f \in Files |->
                        IF f = (IF feature = "cheers" THEN CHEERS_FILE ELSE KUDOS_FILE)
                        THEN "ok" ELSE "missing"]
    /\ rate_limit_data = <<>>
    /\ cheers_awarded_data = <<>>
    /\ pc = [t \in Handlers |-> "idle"]
    /\ cmd = [t \in Handlers |-> NoComment]
    /\ loc = [t \in Handlers |-> NoLocals]
    /\ out = [t \in Handlers |-> NothingDone]
    /\ snap = [t \in Handlers |-> NoSnapshot]
    /\ awards = <<>>
    /\ credited = <<>>
    /\ ncomments = 0
    /\ applied = <<>>
    /\ ftext = <<>>
    /\ saved = <<>>
    /\ EntryApprovalUnused

\* The comments of the leaderboard runs: '<command> top' by a member.
NewCommentTop(t) ==
    /\ pc[t] = "idle"
    /\ ncomments < MaxComments
    /\ Arrive(t, Comment(<<"b">>, <<Keyword(feature), TOP>>, NoAuthor, <<TRUE, TRUE>>,
                         clock, MIN_ACCOUNT_AGE_DAYS * 86400 * TicksPerSecond,
                         MIN_COMMENT_KARMA), 0)

NextTop ==
    \E t \in {1} :
        \/ NewCommentTop(t)
        \/ c_monitor_comments(t)
        \/ process_cheers_command(t)
        \/ k_monitor_comments(t)
        \/ reply(t)
        \/ next_iteration(t)

SpecTop == InitTop /\ [][NextTop]_vars

\* n times the letter x
Xs(n) == [i \in 1..n |-> "x"]

\* The lengths of the flair texts: none, short, and around what the limit
\* leaves beside a count token.
FlairLengths == {0, 3, 51, 52, 53, 54, 58, 59, 60, 64}

\* What a flair text goes on with after its letters: nothing; a word after a
\* space; the count token of the other feature; and, for a target that has
\* c > 0 points, the feature's count token of c, at the end, before a
\* newline, or before the count token of the other feature.
FlairEndings(f, c) ==
    LET own == CountToken(f, c)
        other == CountToken(IF f = "cheers" THEN "kudos" ELSE "cheers", 2)
    IN  { <<>>, <<" ", "y">>, <<" ">> \o other }
            \cup (IF c = 0 THEN {}
                  ELSE { <<" ">> \o own,
                         <<" ">> \o own \o <<"\n">>,
                         <<" ">> \o own \o <<" ">> \o other })

\* The flair texts the platform may hold for the target of an award: none is
\* longer than the platform allows.
FlairTexts(f, c) ==
    { x \in { Xs(n) \o e : n \in FlairLengths, e \in FlairEndings(f, c) } :
        Len(x) <= FLAIR_LIMIT }

\* The received counts the target has before the award: none, 9, 99.
FlairCounts == {0, 9, 99}

\* A feature whose __init__ loaded the received count of the account 'ab'.
InitFlair ==
    /\ clock = 0
    /\ RateLimiterIdle
    /\ feature \in {"cheers", "kudos"}
    /\ \E n \in FlairCounts :
          LET l == IF n = 0 THEN <<>> ELSE << <<<<"a", "b">>, n>> >>
              file == IF feature = "cheers" THEN CHEERS_FILE ELSE KUDOS_FILE
          IN  /\ cheers_data = IF feature = "cheers" THEN l ELSE <<>>
              /\ kudos_data = IF feature = "kudos" THEN l ELSE <<>>
              /\ disk = [f \in Files |-> IF f = file THEN l ELSE <<>>]
              /\ fstate = [f \in Files |->
                             IF f = file /\ n # 0 THEN "ok" ELSE "missing"]
    /\ rate_limit_data = <<>>
    /\ cheers_awarded_data = <<>>
    /\ pc = [t \in Handlers |-> "idle"]
    /\ cmd = [t \in Handlers |-> NoComment]
    /\ loc = [t \in Handlers |-> NoLocals]
    /\ out = [t \in Handlers |-> NothingDone]
    /\ snap = [t \in Handlers |-> NoSnapshot]
    /\ awards = <<>>
    /\ credited = <<>>
    /\ ncomments = 0
    /\ applied = <<>>
    /\ ftext = <<>>
    /\ saved = <<>>
    /\ EntryApprovalUnused

\* The comment of the flair runs: an award to 'ab' by an eligible member,
\* with the flair text the platform holds for 'ab'.
NewCommentFlair(t) ==
    /\ pc[t] = "idle"
    /\ ncomments = 0
    /\ \E x \in FlairTexts(feature,
                           Get(IF feature = "cheers" THEN cheers_data ELSE kudos_data,
                               <<"a", "b">>, 0)) :
          Arrive(t, [Comment(<<"b">>, <<Keyword(feature), <<"u", "/", "a", "b">> >>,
                             NoAuthor, <<TRUE, TRUE>>, clock,
                             MIN_ACCOUNT_AGE_DAYS * 86400 * TicksPerSecond,
                             MIN_COMMENT_KARMA) EXCEPT !.flair_text = x], 0)

NextFlair == \E t \in {1} : NewCommentFlair(t) \/ Handle(t)

SpecFlair == InitFlair /\ [][NextFlair]_vars

\* The bodies of the comments of the parsing runs, all with the award
\* 'u/ab': the command at the start of the body, after a word and a blank,
\* after a line, after a blank, glued to the end of a word, and with a letter
\* glued to its end; and a body without the command.
Bodies(f) ==
    LET award == Keyword(f) \o <<" ", "u", "/", "a", "b">>
    IN  { award,
          <<"h", "s", " ">> \o award,
          <<"h", "s", "\n">> \o award,
          <<" ">> \o award,
          <<"h", "s">> \o award,
          Keyword(f) \o <<"x", " ", "u", "/", "a", "b">>,
          <<"h", "s", " ", "u", "/", "a", "b">> }

\* The authors of the parents in the parsing runs.
Parents == {NoAuthor, <<"a", "b">>, <<"u", "b">>}

\* The comments of the parsing runs, by an eligible member: the bodies above,
\* and the command alone in reply to a comment.
NewCommentParse(t) ==
    /\ pc[t] = "idle"
    /\ ncomments < MaxComments
    /\ \E c \in { [Comment(<<"b">>, <<Keyword(feature), <<"u", "/", "a", "b">> >>,
                           NoAuthor, <<TRUE, TRUE>>, clock,
                           MIN_ACCOUNT_AGE_DAYS * 86400 * TicksPerSecond,
                           MIN_COMMENT_KARMA) EXCEPT !.body = x] :
                      x \in Bodies(feature) }
                \cup { Comment(<<"b">>, <<Keyword(feature)>>, p, <<TRUE, TRUE>>, clock,
                               MIN_ACCOUNT_AGE_DAYS * 86400 * TicksPerSecond,
                               MIN_COMMENT_KARMA) : p \in Parents } :
          Arrive(t, c, 0)

NextParse == \E t \in {1} : NewCommentParse(t) \/ Handle(t)

SpecParse == Init /\ [][NextParse]_vars

\* The moderation assistant from before its start, with the join requests
\* the modmail holds, the errors of the platform and of the file system, and
\* kills and restarts of the process.
InitEA ==
    /\ clock = 0
    /\ RateLimiterIdle
    /\ feature = "cheers"
    /\ FeatureLoaded
    /\ EntryApprovalStopped
    /\ conversations \in [ConvIds -> [kind : ConvKinds, replies : {0}]]

NextEA ==
    \/ ea_startup
    \/ ea_process_join_requests
    \/ ea_next
    \/ ea_sleep
    \/ ea_author
    \/ ea_is_user_approved
    \/ ea_has_prior_conversation
    \/ ea_analyze_user
    \/ ea_reply
    \/ ea_mark_conversation_processed
    \/ ea_save_data
    \/ ea_save_open
    \/ ea_save_dump
    \/ ea_save_replace
    \/ ea_save_raises
    \/ ea_kill

SpecEA == InitEA /\ [][NextEA]_vars

(***************************************************************************)
(* The claims                                                              *)
(***************************************************************************)

\* C1: RateLimiter, for max_calls >= 1 and any interleaving of the calling
\* threads: in every sliding window of `period` ticks, (w, w + period], at most
\* max_calls acquire() calls have returned; an acquisition counts at the
\* instant acquire() recorded for it.
C1_SlidingWindow ==
    max_calls >= 1 =>
        \A i \in 1..Len(returned) :
            Cardinality({j \in 1..Len(returned) :
                            /\ returned[j] > returned[i] - period
                            /\ returned[j] <= returned[i]}) <= max_calls

\* More calls than max_calls came from two threads: one is held back in its
\* sleep while the other waits for the lock.
C1_Throttled ==
    /\ max_calls >= 1
    /\ Len(returned) >= max_calls
    /\ \E t, u \in Threads : rl_pc[t] = "sleeping" /\ rl_pc[u] = "acquire"

\* C10: every request a feature thread sends through the platform client was
\* preceded by an acquire() of its own that returned: no request goes out
\* without one, and a thread about to send holds an unused acquisition.
C10_AcquireBeforeRequest ==
    /\ ~unmatched
    /\ \A t \in Threads : rl_pc[t] = "acquired" => token[t]

\* Requests of both threads went out, each after its acquire().
C10_RequestsSent ==
    /\ sent >= 2
    /\ \E t \in Threads : rl_pc[t] = "acquired" /\ rl_kind[t] = "badge"

\* The received-count ledger of the feature, in memory and on disk.
Received == IF feature = "cheers" THEN cheers_data ELSE kudos_data

ReceivedOnDisk == IF feature = "cheers" THEN disk[CHEERS_FILE] ELSE disk[KUDOS_FILE]

\* C2: no lost update: when the award handlers that ran concurrently are all
\* through, the received count of every handle, in memory and in the file, is
\* the count at the start (none) plus the number of increments made for it.
C2_NoLostUpdate ==
    (\A t \in Handlers : pc[t] \in {"idle", "done"}) =>
        \A k \in Keys(credited) :
            /\ Get(Received, k, 0) = Get(credited, k, 0)
            /\ Get(ReceivedOnDisk, k, 0) = Get(credited, k, 0)

\* The comment is a query: '<command> me' or '<command> top'.
IsQuery(c) ==
    /\ c.author # REDDIT_USERNAME
    /\ Len(c.words) = 2
    /\ lower(c.words[2]) \in {ME, TOP}

\* The comment is an award command that has a target.
IsAward(c) ==
    /\ c.author \notin {REDDIT_USERNAME, NoAuthor}
    /\ ~IsQuery(c)
    /\ (Len(c.words) > 1 \/ c.parent # NoAuthor)

\* The handle an award command names: the last word without its 'u/' prefix,
\* or the author of the parent.
NamedTarget(c) ==
    IF Len(c.words) = 1 THEN c.parent
    ELSE LET tok == c.words[Len(c.words)]
         IN  IF startswith(tok, <<"u", "/">>) THEN SubSeq(tok, 3, Len(tok)) ELSE tok

\* The instants of the awarder's earlier cooldown stamps, as the comment arrived.
EarlierAwards(t) ==
    {snap[t].awards[i][2] :
        i \in {j \in 1..Len(snap[t].awards) : snap[t].awards[j][1] = cmd[t].author}}

\* All that is asked of the award of handler t, the cooldown apart.
OtherwiseEligible(t) ==
    /\ cmd[t].exists
    /\ cmd[t].member
    /\ lower(loc[t].mentioned_username) # lower(cmd[t].author)
    /\ days(clock - cmd[t].created_utc) >= MIN_ACCOUNT_AGE_DAYS
    /\ cmd[t].comment_karma >= MIN_COMMENT_KARMA

\* C3: cheers, comments handled one after another: after an award of the
\* awarder at instant T, an attempt of the same awarder before T + 600 s is
\* rejected whatever its target, and an otherwise eligible attempt at
\* T + 601 s or later (counted from the latest award) is accepted.
C3_Cooldown ==
    \A t \in Handlers :
        (feature = "cheers" /\ pc[t] = "done" /\ IsAward(cmd[t])) =>
            /\ \A T \in EarlierAwards(t) :
                  clock < T + CHEERS_COOLDOWN_SECONDS * TicksPerSecond
                      => out[t].outcome # "ok"
            /\ (/\ EarlierAwards(t) # {}
                /\ \A T \in EarlierAwards(t) :
                      clock >= T + (CHEERS_COOLDOWN_SECONDS + 1) * TicksPerSecond
                /\ OtherwiseEligible(t))
                  => out[t].outcome = "ok"

\* C4: handlers running concurrently: no awarder has two cooldown stamps, that
\* is two successful awards, less than 600 s apart.
C4_OneAwardPerWindow ==
    \A i, j \in 1..Len(awards) :
        (i < j /\ awards[i][1] = awards[j][1]) =>
            awards[j][2] - awards[i][2] >= CHEERS_COOLDOWN_SECONDS * TicksPerSecond

\* The shared state is as it was when the comment of handler t arrived.
Untouched(t) ==
    /\ cheers_data = snap[t].cheers_data
    /\ rate_limit_data = snap[t].rate_limit_data
    /\ cheers_awarded_data = snap[t].cheers_awarded_data
    /\ kudos_data = snap[t].kudos_data
    /\ disk = snap[t].disk

\* C5: an award command whose target is the awarder, letter case ignored,
\* changes no received count, no given count and no cooldown entry, whatever
\* the awarder's cooldown, account age and karma.
C5_SelfAwardRejected ==
    \A t \in Handlers :
        (/\ pc[t] # "idle"
         /\ IsAward(cmd[t])
         /\ lower(NamedTarget(cmd[t])) = lower(cmd[t].author)) => Untouched(t)

\* The first check that fails, in the order existence, membership, self-award,
\* cooldown, account age, karma; "ok" when none does. The target is the handle
\* handed to validation, the cooldown table the one the comment found.
FirstFailing(t) ==
    LET c == cmd[t]
        table == snap[t].rate_limit_data
    IN  IF ~c.exists THEN "exist"
        ELSE IF ~c.member THEN "member"
        ELSE IF lower(loc[t].mentioned_username) = lower(c.author) THEN "self"
        ELSE IF /\ Has(table, c.author)
                /\ clock - strptime(Get(table, c.author, 0))
                      < CHEERS_COOLDOWN_SECONDS * TicksPerSecond
             THEN "cooldown"
        ELSE IF days(clock - c.created_utc) < MIN_ACCOUNT_AGE_DAYS THEN "age"
        ELSE IF c.comment_karma < MIN_COMMENT_KARMA THEN "karma"
        ELSE "ok"

\* C6: cheers: the decision on an award candidate is the reason of the first
\* failing check in the fixed order, and acceptance exactly when all six pass.
C6_ValidationOrder ==
    \A t \in Handlers :
        (feature = "cheers" /\ pc[t] = "done" /\ IsAward(cmd[t])) =>
            out[t].outcome = FirstFailing(t)

\* An award was turned down for the cooldown although age and karma fail too.
C6_CooldownBeforeAgeAndKarma ==
    \E t \in Handlers :
        /\ feature = "cheers"
        /\ pc[t] = "done"
        /\ out[t].outcome = "cooldown"
        /\ days(clock - cmd[t].created_utc) < MIN_ACCOUNT_AGE_DAYS
        /\ cmd[t].comment_karma < MIN_COMMENT_KARMA

\* No count of the two cheers ledgers is lower after a step than before it.
CountsNeverDecrease ==
    /\ \A k \in Keys(cheers_data) : Get(cheers_data', k, 0) >= Get(cheers_data, k, 0)
    /\ \A k \in Keys(cheers_awarded_data) :
          Get(cheers_awarded_data', k, 0) >= Get(cheers_awarded_data, k, 0)

\* The award of handler t has raised the target's received count and the
\* awarder's given count by one each, and no other count.
ExactlyOneEach(t) ==
    /\ \A k \in Keys(cheers_data) \cup Keys(snap[t].cheers_data) :
          Get(cheers_data, k, 0) =
              Get(snap[t].cheers_data, k, 0)
                  + (IF k = lower(loc[t].mentioned_username) THEN 1 ELSE 0)
    /\ \A k \in Keys(cheers_awarded_data) \cup Keys(snap[t].cheers_awarded_data) :
          Get(cheers_awarded_data, k, 0) =
              Get(snap[t].cheers_awarded_data, k, 0)
                  + (IF k = lower(cmd[t].author) THEN 1 ELSE 0)

\* C7: cheers, any sequence of commands: no received or given count ever
\* decreases, and an award that went through has raised the target's received
\* count and the awarder's given count by exactly one and no other count.
C7_MonotonicCounters ==
    /\ [][CountsNeverDecrease]_vars
    /\ [](\A t \in Handlers :
            (feature = "cheers" /\ pc[t] \in {"flair", "reply", "done"}
                /\ out[t].outcome = "ok") => ExactlyOneEach(t))

\* A second award to the same target went through and was acknowledged.
C7_SecondAwardDone ==
    \E t \in Handlers :
        /\ feature = "cheers"
        /\ pc[t] = "done"
        /\ out[t].outcome = "ok"
        /\ out[t].replies = 1
        /\ Get(cheers_data, lower(loc[t].mentioned_username), 0) = 2

Rejections ==
    {"notarget", "format", "exist", "member", "self", "cooldown", "age", "karma"}

\* C8: an award that a check turned down leaves the received counts, the given
\* counts and the cooldown table as they were, in memory and on disk.
C8_RejectionHasNoEffect ==
    \A t \in Handlers : out[t].outcome \in Rejections => Untouched(t)

\* An award was turned down for the karma, after ledger and cooldown table
\* were filled by an earlier award, and the refusal was posted.
C8_RejectedAfterAward ==
    \E t \in Handlers :
        /\ feature = "cheers"
        /\ pc[t] = "done"
        /\ out[t].outcome = "karma"
        /\ out[t].replies = 1
        /\ cheers_data # <<>>
        /\ rate_limit_data # <<>>

\* C9: the self-count query and the leaderboard query change no ledger and no
\* cooldown entry and make no lookup and no check: the only outbound call is
\* the reply, which is made whatever the awarder's cooldown, age and karma.
C9_QueriesReadOnly ==
    \A t \in Handlers :
        (pc[t] # "idle" /\ IsQuery(cmd[t])) =>
            /\ Untouched(t)
            /\ out[t].asked \subseteq {"reply"}
            /\ out[t].outcome \in {"none", "me", "top"}
            /\ (pc[t] = "done" => "reply" \in out[t].asked)

\* A query of an awarder on cooldown, with too little karma and too young an
\* account, was answered.
C9_QueryAnsweredOnCooldown ==
    \E t \in Handlers :
        /\ pc[t] = "done"
        /\ IsQuery(cmd[t])
        /\ out[t].replies = 1
        /\ Has(rate_limit_data, cmd[t].author)
        /\ clock - strptime(Get(rate_limit_data, cmd[t].author, 0))
              < CHEERS_COOLDOWN_SECONDS * TicksPerSecond
        /\ cmd[t].comment_karma < MIN_COMMENT_KARMA
        /\ days(clock - cmd[t].created_utc) < MIN_ACCOUNT_AGE_DAYS

\* C11: RateLimiter, max_calls >= 1, a fair scheduler and advancing time:
\* every call of acquire(), by whichever thread, eventually returns.
C11_AcquireReturns ==
    \A t \in Threads :
        (max_calls >= 1 /\ rl_pc[t] = "acquire") ~> (rl_pc[t] = "acquired")

\* Every request was served although one call had to sleep until the oldest
\* call left the window, past the time the clock runs to by itself.
C11_SleptAndReturned ==
    /\ max_calls >= 1
    /\ Len(returned) > max_calls
    /\ returned[max_calls + 1] = returned[1] + period
    /\ clock > MaxTime
    /\ sent = MaxRequests

\* C12: RateLimiter with max_calls >= 0 and period > 0: acquire() never
\* raises; it only waits and returns.
C12_AcquireNeverRaises == \A t \in Threads : rl_pc[t] # "raised"

\* The received count of the command of handler t has been raised, in memory
\* or in the file.
PointCredited(t) ==
    \/ cheers_data # snap[t].cheers_data
    \/ disk[CHEERS_FILE] # snap[t].disk[CHEERS_FILE]

\* The cooldown file holds the stamp of the command of handler t.
CooldownPersisted(t) ==
    /\ fstate[RATE_LIMIT_FILE] = "ok"
    /\ Has(disk[RATE_LIMIT_FILE], cmd[t].author)
    /\ Get(disk[RATE_LIMIT_FILE], cmd[t].author, 0) = strftime(clock)

\* C13: cheers, an accepted award: the awarder's cooldown stamp is in the
\* cooldown file before the target's received count is raised; wherever the
\* process stops, there is no credited point without the persisted cooldown.
C13_CooldownBeforeCredit ==
    \A t \in Handlers :
        (feature = "cheers" /\ pc[t] # "idle" /\ PointCredited(t))
            => CooldownPersisted(t)

\* Between the two steps: the cooldown of a second award is in the file, its
\* point is not credited yet.
C13_BetweenTheSteps ==
    \E t \in Handlers :
        /\ feature = "cheers"
        /\ pc[t] = "c_incr"
        /\ CooldownPersisted(t)
        /\ ~PointCredited(t)
        /\ cheers_data # <<>>

FailedAfterCredit(t) ==
    /\ feature = "cheers"
    /\ out[t].outcome = "ok"
    /\ out[t].raised
    /\ "badge" \in out[t].asked

\* C14: cheers: when the badge update or the reply fails after the received
\* count was raised, the raised count stays in memory and in the file, and the
\* error ends at the comment's boundary inside the listener loop.
C14_OnceCreditedAlwaysCredited ==
    \A t \in Handlers :
        FailedAfterCredit(t) =>
            LET k == lower(loc[t].mentioned_username) IN
            /\ pc[t] = "done"
            /\ Get(cheers_data, k, 0) = Get(snap[t].cheers_data, k, 0) + 1
            /\ Get(disk[CHEERS_FILE], k, 0) = Get(cheers_data, k, 0)
            /\ fstate[CHEERS_FILE] = "ok"

\* The reply of an accepted award failed after the badge was updated.
C14_ReplyFailedAfterCredit ==
    \E t \in Handlers :
        /\ FailedAfterCredit(t)
        /\ "reply" \in out[t].asked
        /\ pc[t] = "done"

\* C15: an exception raised while a comment is handled ends at the comment's
\* boundary, from where the listener takes the next comment; the listener
\* loop is left only with no comment in hand.
C15_ListenerRobust ==
    \A t \in Handlers :
        /\ out[t].raised => (pc[t] = "done" /\ ENABLED next_iteration(t))
        /\ pc[t] \in {"backoff", "run"} => cmd[t] = NoComment

\* The save of the cooldown table raised for one comment, and the next
\* comment was handled and answered.
C15_NextCommentHandled ==
    \E t \in Handlers :
        /\ ncomments = 2
        /\ pc[t] = "done"
        /\ out[t].replies = 1
        /\ rate_limit_data # disk[RATE_LIMIT_FILE]

\* The mappings in memory.
Memory == <<cheers_data, rate_limit_data, cheers_awarded_data, kudos_data>>

\* C16: when an error leaves the listener, run sleeps the backoff interval
\* and starts the listener again, every time; the received counts, the given
\* counts and the cooldown table in memory are the same before the error
\* left the listener and after the restart.
C16_SupervisedRestart ==
    /\ [](\A t \in Handlers :
            /\ pc[t] \in {"backoff", "run"} =>
                  Memory = <<snap[t].cheers_data, snap[t].rate_limit_data,
                             snap[t].cheers_awarded_data, snap[t].kudos_data>>
            /\ pc[t] = "backoff" => ENABLED run_sleep(t)
            /\ pc[t] = "run" => ENABLED run_monitor_comments(t))
    /\ [][\A t \in Handlers :
            /\ (pc[t] = "backoff" /\ pc'[t] # "backoff") =>
                  /\ pc'[t] = "run"
                  /\ clock' = clock + BACKOFF_SECONDS * TicksPerSecond
                  /\ Memory' = Memory
            /\ (pc[t] = "run" /\ pc'[t] # "run") =>
                  /\ pc'[t] = "idle"
                  /\ Memory' = Memory]_vars

\* The listener is back after an award, a failure of the stream and the sleep.
C16_Restarted ==
    \E t \in Handlers :
        /\ pc[t] = "idle"
        /\ clock = BACKOFF_SECONDS * TicksPerSecond
        /\ ncomments = 2
        /\ Received # <<>>

\* The mapping in memory that is saved to the file.
MemoryOf(file_name) ==
    IF file_name = CHEERS_FILE THEN cheers_data
    ELSE IF file_name = RATE_LIMIT_FILE THEN rate_limit_data
    ELSE IF file_name = CHEERS_AWARDED_FILE THEN cheers_awarded_data
    ELSE kudos_data

\* C17: whatever happens, a kill during a save included, a data file that was
\* a complete snapshot (or absent) is afterwards the same snapshot or the
\* complete new one, never an empty or partly written file.
C17_CrashSafeSave ==
    [][\A f \in Files :
          fstate[f] \in {"missing", "ok"} =>
              /\ fstate'[f] \in {"missing", "ok"}
              /\ (disk'[f] = disk[f] \/ disk'[f] = MemoryOf(f))]_vars

\* C19: whatever the state of a data file at startup (missing, unreadable,
\* malformed), the feature starts: startup never fails.
C19_StartupNeverFails == \A t \in Handlers : pc[t] # "startup_failed"

\* The points a mapping of received counts holds, all handles together.
RECURSIVE Total(_)
Total(d) == IF d = <<>> THEN 0 ELSE d[1][2] + Total(Tail(d))

\* C20: cheers: a process killed after the received count of a command was
\* raised and saved, and before the badge update, leaves the raised count in
\* the file the restart loads; and a command id delivered again after the
\* restart raises no count a second time: the file never holds more points
\* than there are distinct command ids that were accepted.
C20_ExactlyOnce ==
    feature = "cheers" =>
        /\ \A t \in Handlers :
              (/\ pc[t] = "stopped"
               /\ out[t].outcome = "ok"
               /\ loc[t].given > 0
               /\ "badge" \notin out[t].asked) =>
                  LET k == lower(loc[t].mentioned_username) IN
                  /\ fstate[CHEERS_FILE] = "ok"
                  /\ Get(disk[CHEERS_FILE], k, 0) =
                         Get(snap[t].disk[CHEERS_FILE], k, 0) + 1
        /\ Total(disk[CHEERS_FILE]) <=
               Cardinality({applied[i] : i \in 1..Len(applied)})

\* C21: a ledger of handles and counts that was saved and is loaded by the
\* next process comes back as the mapping that was saved, entry by entry and
\* in the same order; and a second save of the same mapping leaves the text
\* of the file as the first save left it.
C21_RoundTrip ==
    [][/\ (pc[1] = "stopped" /\ pc'[1] = "loaded" /\ fstate[CHEERS_FILE] = "ok")
            => cheers_data' = saved
       /\ (pc[1] = "saved" /\ pc'[1] = "saved_twice")
            => (ftext' = ftext /\ disk' = disk)]_vars

\* A ledger of three entries, one count of several digits and one of none,
\* was saved, and the next process has loaded it.
C21_LoadedAfterSave ==
    /\ pc[1] = "loaded"
    /\ Len(cheers_data) = 3
    /\ cheers_data[1] = <<HandleNo(2), 123>>
    /\ cheers_data[2] = <<HandleNo(1), 0>>
    /\ saved = cheers_data

\* The place of a handle in the ledger: the order of first insertion.
Place(d, k) == CHOOSE i \in 1..Len(d) : d[i][1] = k

\* x comes before y on a leaderboard of the ledger d: the higher count, and
\* of two equal counts the handle that entered the ledger first.
Before(d, x, y) ==
    \/ x[2] > y[2]
    \/ x[2] = y[2] /\ Place(d, x[1]) < Place(d, y[1])

\* C22: the leaderboard a '<command> top' query is answered with has at most
\* 5 entries, all of them entries of the ledger; they are in descending order
\* of count, equal counts in the order of first insertion; and every entry of
\* the ledger left out comes after all of them in that order.
C22_Leaderboard ==
    \A t \in Handlers :
        out[t].outcome = "top" =>
            LET b == out[t].content
                d == Received
            IN  /\ Len(b) <= 5
                /\ Len(b) = (IF Len(d) < 5 THEN Len(d) ELSE 5)
                /\ \A i \in 1..Len(b) : \E p \in 1..Len(d) : d[p] = b[i]
                /\ \A i, j \in 1..Len(b) : i < j => Before(d, b[i], b[j])
                /\ \A p \in 1..Len(d) :
                      (\A i \in 1..Len(b) : b[i] # d[p]) =>
                          \A i \in 1..Len(b) : Before(d, b[i], d[p])

\* The ledger {a:3, ab:5, aba:5, abab:1, ababa:1, ababab:3}, inserted in that
\* order, was asked for its leaderboard: ab and aba (5 each, ab first), then
\* a and ababab (3 each), then abab; ababa is left out.
C22_TiesAndCut ==
    /\ Received = << <<HandleNo(1), 3>>, <<HandleNo(2), 5>>, <<HandleNo(3), 5>>,
                     <<HandleNo(4), 1>>, <<HandleNo(5), 1>>, <<HandleNo(6), 3>> >>
    /\ pc[1] = "done"
    /\ out[1].replies = 1
    /\ out[1].content = << <<HandleNo(2), 5>>, <<HandleNo(3), 5>>, <<HandleNo(1), 3>>,
                           <<HandleNo(6), 3>>, <<HandleNo(4), 1>> >>

\* C23: every key of the received counts, of the given counts and of the
\* cooldown table is the lowercase form of a handle.
C23_LowercaseKeys ==
    \A k \in Keys(Received) \cup Keys(cheers_awarded_data) \cup Keys(rate_limit_data) :
        k = lower(k)

\* What the cheers variant decides on an award that names its target, for
\* the same comment, instant and cooldown table: its checks in its order.
CheersDecision(c, now, table) ==
    LET m == lstrip(lstrip(lstrip(lstrip(c.words[2], {"u", "/"}), {"/"}),
                           {"u", "/"}), {"/"})
    IN  IF ~c.exists THEN "exist"
        ELSE IF ~c.member THEN "member"
        ELSE IF lower(m) = lower(c.author) THEN "self"
        ELSE can_award_cheers(c, now, table)

\* C24: kudos: an award command that names its target is accepted exactly
\* when the cheers variant would accept it, and once it is accepted the
\* awarder's cooldown stamp of that instant is in the cooldown table.
C24_KudosAsCheers ==
    \A t \in Handlers :
        (/\ feature = "kudos"
         /\ pc[t] \in {"flair", "reply", "done"}
         /\ IsAward(cmd[t])
         /\ Len(cmd[t].words) = 2
         /\ out[t].outcome \notin {"none", "ignored"}) =>
            /\ (out[t].outcome = "ok") <=>
                   (CheersDecision(cmd[t], clock, snap[t].rate_limit_data) = "ok")
            /\ out[t].outcome = "ok" =>
                   Get(rate_limit_data, cmd[t].author, -1) = strftime(clock)

\* C25: every acquire() of a burst made at instant 0 returns at most `period`
\* later: no acquisition is recorded, and no sleep ends, after instant `period`.
C25_BoundedBlocking ==
    max_calls >= 1 =>
        /\ \A j \in 1..Len(returned) : returned[j] <= period
        /\ \A t \in Threads : rl_pc[t] = "sleeping" => rl_wake[t] <= period

\* C26: of a burst of requests made at instant 0 on an unused limiter, request
\* number max_calls + k (k >= 1) returns no earlier than k/max_calls * period,
\* and none of them earlier than `period`.
C26_BurstDelay ==
    max_calls >= 1 =>
        \A j \in 1..Len(returned) :
            j > max_calls =>
                /\ returned[j] >= period
                /\ returned[j] * max_calls >= (j - max_calls) * period

\* Three requests came at once to a limiter of one call per period: they
\* returned at 0, at period and at twice the period.
C26_ThirdOfThree ==
    /\ max_calls = 1
    /\ period = MaxPeriod
    /\ returned = <<0, period, 2 * period>>
    /\ sent = 3

\* C27: a command whose existence or membership lookup failed with an error
\* is not answered with the 'does not exist' or the 'not active' rejection,
\* and nothing in memory or in the files has changed.
C27_LookupErrorIsNotNo ==
    \A t \in Handlers :
        (/\ pc[t] \in {"reply", "done"}
         /\ cmd[t].error \cap out[t].asked # {}) =>
            /\ out[t].outcome \notin {"exist", "member"}
            /\ Memory = <<snap[t].cheers_data, snap[t].rate_limit_data,
                          snap[t].cheers_awarded_data, snap[t].kudos_data>>
            /\ disk = snap[t].disk

\* C28: a save that fails leaves the mappings in memory as they were, the
\* mutation made before it included; the cooldown decision on a later command
\* is the one the table in memory gives; and a save that succeeds writes the
\* whole mapping in memory, so what an earlier failed save left unwritten is
\* in the file then.
C28_MemoryAuthoritative ==
    /\ [][\A t \in Handlers :
            /\ (pc[t] \in SaveSteps /\ out'[t].raised) => Memory' = Memory
            /\ (pc[t] \in SaveSteps /\ pc'[t] \notin {"done", pc[t]}) =>
                  /\ disk'[SavedFile(pc[t])] = MemoryOf(SavedFile(pc[t]))
                  /\ fstate'[SavedFile(pc[t])] = "ok"]_vars
    /\ [](\A t \in Handlers :
            (feature = "cheers" /\ pc[t] \in {"c_stamp", "reply", "done"}
                /\ out[t].outcome \in {"ok", "cooldown"}) =>
                    out[t].outcome =
                        can_award_cheers(cmd[t], clock, snap[t].rate_limit_data))

\* The save of the cooldown table failed on the first award; the save on the
\* second award has just written both stamps.
C28_FlushedLater ==
    /\ pc[1] = "c_incr"
    /\ Len(awards) = 2
    /\ applied = <<>>
    /\ Len(rate_limit_data) = 2
    /\ disk[RATE_LIMIT_FILE] = rate_limit_data
    /\ snap[1].disk[RATE_LIMIT_FILE] # snap[1].rate_limit_data

\* C29: a comment written by the bot's own account, whatever it says, is
\* dropped by the listener: no lookup, badge update or reply is asked of the
\* platform for it, and no ledger, cooldown entry or file changes.
C29_OwnCommentsIgnored ==
    \A t \in Handlers :
        (cmd[t].author = REDDIT_USERNAME /\ pc[t] # "idle") =>
            /\ pc[t] \in {"monitor", "done"}
            /\ out[t].outcome \in {"none", "ignored"}
            /\ out[t].asked = {}
            /\ out[t].replies = 0
            /\ Memory = <<snap[t].cheers_data, snap[t].rate_limit_data,
                          snap[t].cheers_awarded_data, snap[t].kudos_data>>
            /\ disk = snap[t].disk

\* After an award was made, a comment of the bot that reads like an award
\* command was dropped.
C29_OwnAwardDropped ==
    /\ pc[1] = "done"
    /\ cmd[1].author = REDDIT_USERNAME
    /\ cmd[1].words[2] = <<"u", "/", "b">>
    /\ out[1].outcome = "ignored"
    /\ Received # <<>>

\* A count token of the feature begins at position i of the text.
TokenAt(f, s, i) ==
    \E j \in i..Len(s) : IsTokenFrom(f, SubSeq(s, 1, j), i)

\* C30: the flair text sent to the platform is at most 64 characters long,
\* ends with the count token of the new count, and holds no other count token
\* of the feature.
C30_BadgeFormat ==
    \A t \in Handlers :
        (pc[t] = "reply" /\ "badge" \in out[t].asked) =>
            LET s == out[t].flair
                tok == CountToken(feature, loc[t].count)
            IN  /\ Len(s) <= 64
                /\ Len(s) >= Len(tok)
                /\ SubSeq(s, Len(s) - Len(tok) + 1, Len(s)) = tok
                /\ Cardinality({i \in 1..Len(s) : TokenAt(feature, s, i)}) = 1

\* The body holds the command of the feature as a word of its own: at the
\* start of the body or after white space, and followed by white space or
\* by the end of the body.
StandaloneCommand(f, body) ==
    \E i \in 1..Len(body) :
        /\ KeywordAt(body, i, Keyword(f))
        /\ (i = 1 \/ body[i - 1] \in WHITESPACE)
        /\ (i + Len(Keyword(f)) > Len(body)
               \/ body[i + Len(Keyword(f))] \in WHITESPACE)

\* C32: a comment that is not the bot's own and whose body holds the command
\* as a word of its own, followed by a target, is taken for a command: its
\* handling does not end with nothing done.
C32_CommandRecognized ==
    \A t \in Handlers :
        (/\ pc[t] = "done"
         /\ cmd[t].author # REDDIT_USERNAME
         /\ StandaloneCommand(feature, cmd[t].body)
         /\ Len(split(cmd[t].body)) >= 2
         /\ split(cmd[t].body)[Len(split(cmd[t].body))] = <<"u", "/", "a", "b">>)
            => out[t].outcome # "nothing"

\* C33: the handle cheers validates for a command that names its target is
\* the target token without its 'u/' prefix, nothing else dropped, and the
\* received count goes to the key of that handle.
C33_TargetExtraction ==
    \A t \in Handlers :
        (/\ feature = "cheers"
         /\ cmd[t].author # REDDIT_USERNAME
         /\ Len(cmd[t].words) > 1
         /\ ~IsQuery(cmd[t])
         /\ pc[t] \notin {"idle", "monitor", "process"})
            => /\ loc[t].mentioned_username = NamedTarget(cmd[t])
               /\ pc[t] = "c_save_cheers"
                     => Has(cheers_data, lower(NamedTarget(cmd[t])))

\* C34: an award command that names no target goes to the author of the
\* parent; when the parent has no author the bot replies that it cannot find
\* the target, and no mapping and no file changes.
C34_DefaultTarget ==
    \A t \in Handlers :
        (/\ pc[t] = "done"
         /\ ~out[t].raised
         /\ cmd[t].author # REDDIT_USERNAME
         /\ Len(cmd[t].words) = 1)
            => IF cmd[t].parent = NoAuthor
               THEN /\ out[t].outcome = "notarget"
                    /\ out[t].replies = 1
                    /\ Untouched(t)
               ELSE loc[t].mentioned_username = cmd[t].parent

\* The key of the received count the handler of thread t credits.
TargetKey(t) ==
    IF feature = "cheers" THEN lower(loc[t].mentioned_username)
    ELSE loc[t].mentioned_username

\* C35: when the reply that announces an award is about to be posted, and
\* after it, the increment of this command has been made and the file of the
\* received counts holds it; the count the reply quotes is the count the
\* increment stored for the target.
C35_ReplyAfterPersist ==
    \A t \in Handlers :
        (pc[t] \in {"reply", "done"} /\ out[t].outcome = "ok" /\ ~out[t].raised) =>
            /\ \E i \in 1..Len(applied) : applied[i] = cmd[t].id
            /\ Get(ReceivedOnDisk, TargetKey(t), 0) = loc[t].count
            /\ Get(Received, TargetKey(t), 0) = loc[t].count
            /\ pc[t] = "done" => out[t].content = <<loc[t].count>>

\* An award is announced with the count 2, the second one its target received.
C35_SecondAwardAnnounced ==
    \E t \in Handlers :
        /\ pc[t] = "done"
        /\ out[t].outcome = "ok"
        /\ out[t].replies = 1
        /\ out[t].content = <<2>>

\* C36: in cheers, whenever no comment is being handled, the received
\* counts add up to what the given counts add up to.
C36_LedgerConservation ==
    (feature = "cheers" /\ \A t \in Handlers : pc[t] = "idle") =>
        Total(cheers_data) = Total(cheers_awarded_data)

\* C37: the handling of a command of the feature, by another account than the
\* bot's, that ends without an exception has posted exactly one reply.
C37_OneReply ==
    \A t \in Handlers :
        (/\ pc[t] = "done"
         /\ ~out[t].raised
         /\ cmd[t].author # REDDIT_USERNAME
         /\ Recognized(feature, cmd[t].body))
            => out[t].replies = 1

\* C38: with max_calls of 1 or more, whenever the lock of the limiter is
\* free the recorded timestamps are in non-decreasing order, there are at
\* most max_calls of them, and each is less than period older than the newest.
C38_WindowInvariant ==
    (max_calls >= 1 /\ rl_lock = 0) =>
        /\ \A i, j \in 1..Len(calls) : i <= j => calls[i] <= calls[j]
        /\ Len(calls) <= max_calls
        /\ \A i \in 1..Len(calls) : calls[Len(calls)] - calls[i] < period

\* acquire() has returned more often than max_calls, the window is full
\* and older timestamps have been dropped from it.
C38_FullAfterPruning ==
    /\ max_calls >= 1
    /\ rl_lock = 0
    /\ Len(calls) = max_calls
    /\ Len(returned) > max_calls

\* C40: the handling of a comment that process_comment got from a user whose
\* last stamp is less than COOLDOWN_SECONDS old ends with the cooldown notice
\* posted to the user, without a call of the LLM and with the user's stamp
\* as it was.
C40_CooldownNotice ==
    \A t \in Handlers :
        (/\ feature = "quips"
         /\ pc[t] = "done"
         /\ out[t].outcome \notin {"ignored", "nothing"}
         /\ Has(snap[t].rate_limit_data, cmd[t].author)
         /\ clock - strptime(Get(snap[t].rate_limit_data, cmd[t].author, 0))
               < COOLDOWN_SECONDS * TicksPerSecond)
            => /\ "reply" \in out[t].asked
               /\ "llm" \notin out[t].asked
               /\ Get(rate_limit_data, cmd[t].author, 0)
                     = Get(snap[t].rate_limit_data, cmd[t].author, 0)

\* C31: at every point of save_processed_conversations, and after a kill at
\* any of them, the durable file is the file the save found or the file with
\* the complete new snapshot; outside a save it is what the last save left.
C31_AtomicSave ==
    \/ FileOf(processed_conversations_file) = ea_before
    \/ /\ ea_data # <<>>
       /\ FileOf(processed_conversations_file) = <<"ok", ea_data>>

\* The process was killed while json.dump wrote the second snapshot: the
\* temporary file holds a part of it, the durable file the first snapshot.
C31_KilledWhileWriting ==
    /\ ea_pc = "stopped"
    /\ ea_kills = 1
    /\ Len(ea_data) = 2
    /\ fstate[TEMP_FILE] = "malformed"
    /\ fstate[processed_conversations_file] = "ok"
    /\ Len(disk[processed_conversations_file]) = 1

\* C39: no join-request conversation holds more than one recommendation of
\* the bot.
C39_AtMostOnce ==
    \A id \in ConvIds : conversations[id].replies <= 1

====
